---- MODULE Spec2Model ----
(***************************************************************************)
(* Diagnostic assessment engine of the public-health chatbot (src/app.py): *)
(* the question-flow controller MedicalChatbot.get_next_question, the      *)
(* answer normaliser MedicalChatbot.map_answers_to_symptoms and the        *)
(* condition matcher MedicalChatbot.find_condition_by_symptoms, driven by  *)
(* a caller that records answers the way the session layer does; and the   *)
(* translation helper translate_text with its cache and its thread pool.   *)
(*                                                                         *)
(* Python values are modelled as tagged records so that Python's == and    *)
(* truthiness can be computed: a str, a list of str, None, and (for a      *)
(* call that does not return) a raised exception.  A dict that the code    *)
(* iterates is a sequence of entries in insertion order.                   *)
(***************************************************************************)
EXTENDS Naturals, Sequences, FiniteSets, TLC

VARIABLES
  department,   \* the department argument of the engine calls
  answers,      \* the caller-owned answer dict, in insertion order
  question,     \* what get_next_question returned for the current answers
  symptoms,     \* what map_answers_to_symptoms returned for the current answers
  again,        \* get_next_question was called again for unchanged answers
  presented,    \* ids of the questions presented so far, in order
  matched,      \* what find_condition_by_symptoms returned for the symptoms
  session_language,   \* session['language'] of each client, unset at first
  translation_cache,  \* the dict translation_cache, in insertion order
  translator_pool,    \* the tasks submitted to translator_pool and not yet dropped
  calls,              \* each request thread's translate_text call
  provider_calls,     \* how often the translation provider was invoked
  session,            \* the keys start_chat sets in the session of one client
  response,           \* what the last route handler returned to that client
  question_call,      \* the last call of translate_question and what it did
  catalog_writes      \* the assignments made to objects of the loaded catalog

engine_vars ==
  <<department, answers, question, symptoms, again, presented, matched>>

translation_vars ==
  <<session_language, translation_cache, translator_pool, calls, provider_calls>>

route_vars == <<session, response, question_call, catalog_writes>>

vars ==
  <<department, answers, question, symptoms, again, presented, matched,
    session_language, translation_cache, translator_pool, calls, provider_calls,
    session, response, question_call,
    catalog_writes>>

----------------------------------------------------------------------------
(* Python values.  A dict that the code only looks up by key is a record. *)

Str(s) == [tag |-> "str", s |-> s, items |-> <<>>]

List(xs) == [tag |-> "list", s |-> "", items |-> xs]

None == [tag |-> "None", s |-> "", items |-> <<>>]

Raise(exc) == [tag |-> "raise", s |-> exc, items |-> <<>>]

\* bool(v) as Python's `if v` / `v and ...` takes it
Truthy(v) ==
  CASE v.tag = "str" -> v.s # ""
    [] v.tag = "list" -> Len(v.items) > 0
    [] OTHER -> FALSE

\* isinstance(v, (list, tuple))
IsList(v) == v.tag = "list"

\* a question dict of a conversation flow (the other values carry a tag)
IsQuestion(v) == "id" \in DOMAIN v

\* No result yet for the current answers (not a Python value).
NotCalled == [tag |-> "not_called", s |-> "", items |-> <<>>]

----------------------------------------------------------------------------
(* dict operations on a sequence of [key, value] entries *)

EmptyDict == <<>>

DictKeys(d) == {d[i].key : i \in 1..Len(d)}

\* k in d
DictHas(d, k) == k \in DictKeys(d)

\* d.get(k): the value, or None when the key is absent
DictGet(d, k) ==
  IF DictHas(d, k)
    THEN d[CHOOSE i \in 1..Len(d) : d[i].key = k].value
    ELSE None

\* d[k] = v: overwrite in place, or append a new entry
DictSet(d, k, v) ==
  IF DictHas(d, k)
    THEN [i \in 1..Len(d) |-> IF d[i].key = k THEN [key |-> k, value |-> v] ELSE d[i]]
    ELSE Append(d, [key |-> k, value |-> v])

----------------------------------------------------------------------------
(* Catalogs *)

\* DEPARTMENTS: the configured department ids, in configuration order
DEPARTMENTS ==
  <<"gastrointestinal", "dermatology", "first_aid", "general_medicine",
    "mental_health", "musculoskeletal">>

\* create_conversation_flows(): per department the ordered questions, each
\* with its id, type, option values and (one question only) depends_on; the
\* display texts are left out.
conversation_flows ==
  [
    gastrointestinal |-> <<
       [id |-> "symptom_location",
        type |-> "single_choice",
        options |-> <<"upper_abdomen", "lower_abdomen", "whole_abdomen", "right_side", "left_side", "none">>],
       [id |-> "upper_abdomen_timing",
        type |-> "single_choice",
        depends_on |-> << <<"symptom_location", Str("upper_abdomen")>> >>,
        options |-> <<"after_meals", "empty_stomach", "constant", "night_time", "none">>],
       [id |-> "pain_character",
        type |-> "single_choice",
        options |-> <<"burning", "cramping", "sharp", "dull", "none">>],
       [id |-> "digestive_symptoms",
        type |-> "multiple_choice",
        options |-> <<"heartburn", "bloating", "belching", "nausea", "vomiting", "loss_of_appetite", "none">>],
       [id |-> "bowel_changes",
        type |-> "multiple_choice",
        options |-> <<"constipation", "diarrhea", "alternating", "bloody_stools", "mucus_stools", "straining", "urgency", "none">>],
       [id |-> "systemic_symptoms",
        type |-> "multiple_choice",
        options |-> <<"fever", "jaundice", "painful_bowel_movement", "none">>] >>,
    dermatology |-> <<
       [id |-> "skin_condition_type",
        type |-> "single_choice",
        options |-> <<"rash_bumps", "dry_patches", "oily_skin", "color_changes", "blisters", "none">>],
       [id |-> "skin_location",
        type |-> "multiple_choice",
        options |-> <<"face", "scalp", "arms", "legs", "chest_back", "all_over_body", "none">>],
       [id |-> "sensation",
        type |-> "multiple_choice",
        options |-> <<"itchy", "burning", "painful", "tender", "no_sensation", "none">>],
       [id |-> "severity",
        type |-> "single_choice",
        options |-> <<"mild", "moderate", "severe", "none">>],
       [id |-> "duration",
        type |-> "single_choice",
        options |-> <<"recent", "chronic", "recurring", "none">>],
       [id |-> "triggers",
        type |-> "multiple_choice",
        options |-> <<"food", "weather", "cosmetics", "stress", "medications", "none">>],
       [id |-> "other_symptoms",
        type |-> "multiple_choice",
        options |-> <<"swelling", "pus", "hair_loss", "nail_changes", "fever", "none">>] >>,
    musculoskeletal |-> <<
       [id |-> "pain_location",
        type |-> "multiple_choice",
        options |-> <<"neck", "shoulder", "upper_back", "lower_back", "hip", "knee", "elbow", "wrist", "ankle", "multiple_joints", "none">>],
       [id |-> "pain_type",
        type |-> "single_choice",
        options |-> <<"sharp_shooting", "dull_ache", "burning", "throbbing", "stabbing", "none">>],
       [id |-> "pain_timing",
        type |-> "multiple_choice",
        options |-> <<"morning", "activity", "rest", "night", "constant", "none">>],
       [id |-> "mobility_issues",
        type |-> "multiple_choice",
        options |-> <<"difficulty_moving", "stiffness", "limited_range", "weakness", "giving_way", "none">>],
       [id |-> "swelling_inflammation",
        type |-> "multiple_choice",
        options |-> <<"swelling", "redness", "warmth", "tenderness", "none">>],
       [id |-> "injury_cause",
        type |-> "single_choice",
        options |-> <<"recent_injury", "overuse", "sports", "fall", "none">>],
       [id |-> "duration",
        type |-> "single_choice",
        options |-> <<"acute", "subacute", "chronic", "recurring", "none">>],
       [id |-> "other_symptoms",
        type |-> "multiple_choice",
        options |-> <<"numbness", "tingling", "muscle_spasms", "fatigue", "fever", "none">>] >>,
    mental_health |-> <<
       [id |-> "mood_symptoms",
        type |-> "multiple_choice",
        options |-> <<"sadness", "anxiety", "irritability", "mood_swings", "emotional_numbness", "none">>],
       [id |-> "physical_symptoms",
        type |-> "multiple_choice",
        options |-> <<"sleep_problems", "appetite_changes", "fatigue", "body_aches", "digestive_issues", "none">>],
       [id |-> "cognitive_symptoms",
        type |-> "multiple_choice",
        options |-> <<"concentration", "memory", "indecisiveness", "racing_thoughts", "negative_thoughts", "none">>],
       [id |-> "behavioral_symptoms",
        type |-> "multiple_choice",
        options |-> <<"social_withdrawal", "loss_interest", "agitation", "procrastination", "routine_changes", "none">>],
       [id |-> "duration",
        type |-> "single_choice",
        options |-> <<"recent", "chronic", "daily", "episodic", "constant", "none">>],
       [id |-> "impact_life",
        type |-> "multiple_choice",
        options |-> <<"work_school", "relationships", "self_care", "daily_tasks", "none">>],
       [id |-> "stress_triggers",
        type |-> "multiple_choice",
        options |-> <<"work_stress", "relationship_stress", "financial_stress", "health_concerns", "life_changes", "none">>],
       [id |-> "severe_symptoms",
        type |-> "multiple_choice",
        options |-> <<"panic_attacks", "suicidal_thoughts", "self_harm", "detachment", "extreme_fear", "none">>] >>,
    first_aid |-> <<
       [id |-> "injury_type",
        type |-> "single_choice",
        options |-> <<"cuts", "burns", "sprains", "fractures", "bleeding", "bites", "other", "none">>],
       [id |-> "bleeding_level",
        type |-> "single_choice",
        options |-> <<"minor_bleeding", "heavy_bleeding", "no_bleeding", "none">>],
       [id |-> "pain_level",
        type |-> "single_choice",
        options |-> <<"mild_pain", "moderate_pain", "severe_pain", "none">>],
       [id |-> "emergency_signs",
        type |-> "multiple_choice",
        options |-> <<"breathing", "unconscious", "allergy", "chest_pain", "head_injury", "none">>],
       [id |-> "mobility",
        type |-> "single_choice",
        options |-> <<"full_movement", "limited_movement", "no_movement", "none">>] >>,
    general_medicine |-> <<
       [id |-> "main_symptoms",
        type |-> "multiple_choice",
        options |-> <<"fever", "cough", "sore_throat", "runny_nose", "headache", "body_aches", "nausea", "diarrhea", "none">>],
       [id |-> "fever_level",
        type |-> "single_choice",
        options |-> <<"mild_fever", "high_fever", "chills", "no_fever", "none">>],
       [id |-> "respiratory_symptoms",
        type |-> "multiple_choice",
        options |-> <<"congestion", "shortness", "chest_pain", "sinus", "none">>],
       [id |-> "digestive_symptoms",
        type |-> "multiple_choice",
        options |-> <<"nausea", "vomiting", "diarrhea", "abdominal_pain", "loss_appetite", "none">>],
       [id |-> "duration",
        type |-> "single_choice",
        options |-> <<"recent", "lasting", "chronic", "recurring", "none">>],
       [id |-> "severity",
        type |-> "single_choice",
        options |-> <<"mild", "moderate", "severe", "none">>] >>
  ]

\* lines 13-20: DEPARTMENTS, the display name of each department
department_names ==
  [gastrointestinal |-> "Gastrointestinal Issues",
   dermatology |-> "Skin & Dermatology",
   first_aid |-> "First Aid & Emergency",
   general_medicine |-> "General Medicine",
   mental_health |-> "Mental Health",
   musculoskeletal |-> "Musculoskeletal & Pain"]

\* lines 23-28: TREATMENT_TYPES in the order of the dict, each with its
\* display name (without the pictograph the name begins with)
TREATMENT_TYPES ==
  << [key |-> "allopathy", value |-> "Modern Medicine (Allopathy)"],
     [key |-> "homeopathy", value |-> "Homeopathic Medicine"],
     [key |-> "ayurveda", value |-> "Ayurvedic Medicine"],
     [key |-> "home_remedy", value |-> "Home Remedies & Lifestyle"] >>

\* create_conversation_flows(): the display texts of the flows, per
\* department and question in the order of conversation_flows: the text of
\* the question and the text of each option (the degree sign of two option
\* texts is left out)
display_texts ==
  [
    gastrointestinal |-> <<
       [question |-> "Where is your abdominal discomfort primarily located?",
        options |-> <<"Upper Abdomen (below chest)",
                      "Lower Abdomen (below belly button)",
                      "Whole Abdomen",
                      "Right Side",
                      "Left Side",
                      "No specific location">>],
       [question |-> "When does your upper abdominal pain occur?",
        options |-> <<"After Eating",
                      "On Empty Stomach",
                      "Constant Pain",
                      "At Night",
                      "No specific timing">>],
       [question |-> "What best describes the character of your pain?",
        options |-> <<"Burning Sensation",
                      "Cramping Pain",
                      "Sharp/Stabbing Pain",
                      "Dull Ache",
                      "No specific character">>],
       [question |-> "Do you experience any of these digestive symptoms?",
        options |-> <<"Heartburn/Acidity",
                      "Bloating",
                      "Excessive Belching",
                      "Nausea",
                      "Vomiting",
                      "Loss of Appetite",
                      "None of these">>],
       [question |-> "Any changes in your bowel movements?",
        options |-> <<"Constipation",
                      "Diarrhea",
                      "Alternating Constipation/Diarrhea",
                      "Blood in Stool",
                      "Mucus in Stool",
                      "Straining during Bowel Movement",
                      "Urgent Need for Bowel Movement",
                      "No bowel changes">>],
       [question |-> "Are you experiencing any of these general symptoms?",
        options |-> <<"Fever",
                      "Yellowing of Skin/Eyes (Jaundice)",
                      "Painful Bowel Movements",
                      "None of these">>] >>,
    dermatology |-> <<
       [question |-> "What type of skin condition are you experiencing?",
        options |-> <<"Rash or Bumps",
                      "Dry/Scaly Patches",
                      "Oily Skin with Pimples",
                      "Skin Color Changes",
                      "Blisters or Sores",
                      "Not Sure">>],
       [question |-> "Where is the skin condition located?",
        options |-> <<"Face",
                      "Scalp",
                      "Arms",
                      "Legs",
                      "Chest or Back",
                      "All Over Body",
                      "No Specific Location">>],
       [question |-> "What sensation do you feel on the affected skin?",
        options |-> <<"Itchy",
                      "Burning",
                      "Painful",
                      "Tender to Touch",
                      "No Sensation",
                      "None of These">>],
       [question |-> "How severe is the itching or discomfort?",
        options |-> <<"Mild (barely noticeable)",
                      "Moderate (annoying but manageable)",
                      "Severe (interferes with daily activities)",
                      "No Itching/Discomfort">>],
       [question |-> "How long have you had this skin condition?",
        options |-> <<"Recent (less than 1 week)",
                      "Chronic (more than 1 month)",
                      "Comes and Goes",
                      "Not Sure">>],
       [question |-> "Do you notice any triggers that make it worse?",
        options |-> <<"Certain Foods",
                      "Weather Changes",
                      "Cosmetics or Soaps",
                      "Stress",
                      "Medications",
                      "No Known Triggers">>],
       [question |-> "Are you experiencing any other symptoms?",
        options |-> <<"Swelling",
                      "Pus or Discharge",
                      "Hair Loss",
                      "Nail Changes",
                      "Fever",
                      "None of These">>] >>,
    musculoskeletal |-> <<
       [question |-> "Where is your pain primarily located?",
        options |-> <<"Neck",
                      "Shoulder",
                      "Upper Back",
                      "Lower Back",
                      "Hip",
                      "Knee",
                      "Elbow",
                      "Wrist",
                      "Ankle",
                      "Multiple Joints",
                      "No Specific Location">>],
       [question |-> "What type of pain are you experiencing?",
        options |-> <<"Sharp/Shooting Pain",
                      "Dull Ache",
                      "Burning Sensation",
                      "Throbbing Pain",
                      "Stabbing Pain",
                      "No Specific Type">>],
       [question |-> "When does the pain occur or worsen?",
        options |-> <<"Morning Stiffness",
                      "During Activity",
                      "During Rest",
                      "At Night",
                      "Constant Pain",
                      "No Specific Timing">>],
       [question |-> "What mobility issues are you experiencing?",
        options |-> <<"Difficulty Moving",
                      "Stiffness",
                      "Limited Range of Motion",
                      "Weakness",
                      "Joint Giving Way",
                      "No Mobility Issues">>],
       [question |-> "Do you have any signs of inflammation?",
        options |-> <<"Swelling",
                      "Redness",
                      "Warmth to Touch",
                      "Tenderness",
                      "No Inflammation Signs">>],
       [question |-> "Was this caused by an injury or specific activity?",
        options |-> <<"Recent Injury",
                      "Overuse/Repetitive Motion",
                      "Sports Injury",
                      "Fall or Accident",
                      "No Specific Cause">>],
       [question |-> "How long have you had these symptoms?",
        options |-> <<"Recent (less than 1 week)",
                      "Few Weeks (1-4 weeks)",
                      "Chronic (more than 3 months)",
                      "Comes and Goes",
                      "Not Sure">>],
       [question |-> "Are you experiencing any other symptoms?",
        options |-> <<"Numbness",
                      "Tingling Sensation",
                      "Muscle Spasms",
                      "Fatigue",
                      "Fever",
                      "None of These">>] >>,
    mental_health |-> <<
       [question |-> "What mood-related symptoms are you experiencing?",
        options |-> <<"Sadness or Hopelessness",
                      "Anxiety or Worry",
                      "Irritability or Anger",
                      "Mood Swings",
                      "Emotional Numbness",
                      "None of These">>],
       [question |-> "What physical symptoms are you experiencing?",
        options |-> <<"Sleep Problems",
                      "Appetite Changes",
                      "Fatigue or Low Energy",
                      "Body Aches or Pains",
                      "Digestive Issues",
                      "None of These">>],
       [question |-> "What thinking-related symptoms are you experiencing?",
        options |-> <<"Concentration Problems",
                      "Memory Issues",
                      "Indecisiveness",
                      "Racing Thoughts",
                      "Negative Thoughts",
                      "None of These">>],
       [question |-> "What behavior changes have you noticed?",
        options |-> <<"Social Withdrawal",
                      "Loss of Interest in Activities",
                      "Agitation or Restlessness",
                      "Procrastination",
                      "Changes in Routine",
                      "None of These">>],
       [question |-> "How long have you been experiencing these symptoms?",
        options |-> <<"Recent (less than 2 weeks)",
                      "Chronic (more than 2 months)",
                      "Daily",
                      "Comes and Goes",
                      "Constant",
                      "Not Sure">>],
       [question |-> "How is this affecting your daily life?",
        options |-> <<"Work or School Problems",
                      "Relationship Issues",
                      "Difficulty with Self-Care",
                      "Daily Tasks Challenging",
                      "No Significant Impact">>],
       [question |-> "Are there any specific stressors or triggers?",
        options |-> <<"Work Stress",
                      "Relationship Stress",
                      "Financial Stress",
                      "Health Concerns",
                      "Major Life Changes",
                      "No Specific Triggers">>],
       [question |-> "Are you experiencing any of these severe symptoms?",
        options |-> <<"Panic Attacks",
                      "Suicidal Thoughts",
                      "Self-Harm Thoughts",
                      "Feeling Detached from Reality",
                      "Extreme Fear",
                      "None of These">>] >>,
    first_aid |-> <<
       [question |-> "What type of injury or emergency are you dealing with?",
        options |-> <<"Cuts or Scrapes",
                      "Burns",
                      "Sprains or Strains",
                      "Possible Fractures",
                      "Bleeding",
                      "Animal or Insect Bites",
                      "Other Emergency",
                      "Not Sure">>],
       [question |-> "Is there bleeding?",
        options |-> <<"Minor Bleeding",
                      "Heavy Bleeding",
                      "No Bleeding",
                      "Not Sure">>],
       [question |-> "How severe is the pain?",
        options |-> <<"Mild Pain",
                      "Moderate Pain",
                      "Severe Pain",
                      "No Pain">>],
       [question |-> "Are there any emergency warning signs?",
        options |-> <<"Difficulty Breathing",
                      "Unconsciousness",
                      "Severe Allergic Reaction",
                      "Chest Pain",
                      "Head Injury",
                      "None of These">>],
       [question |-> "Can the injured area move normally?",
        options |-> <<"Full Movement",
                      "Limited Movement",
                      "Cannot Move",
                      "Not Applicable">>] >>,
    general_medicine |-> <<
       [question |-> "What are your main symptoms?",
        options |-> <<"Fever",
                      "Cough",
                      "Sore Throat",
                      "Runny Nose",
                      "Headache",
                      "Body Aches",
                      "Nausea",
                      "Diarrhea",
                      "None of These">>],
       [question |-> "Do you have fever?",
        options |-> <<"Mild Fever (below 101F)",
                      "High Fever (above 101F)",
                      "Chills without Fever",
                      "No Fever",
                      "Not Sure">>],
       [question |-> "Any breathing or chest symptoms?",
        options |-> <<"Nasal Congestion",
                      "Shortness of Breath",
                      "Chest Pain",
                      "Sinus Pressure",
                      "None of These">>],
       [question |-> "Any digestive symptoms?",
        options |-> <<"Nausea",
                      "Vomiting",
                      "Diarrhea",
                      "Abdominal Pain",
                      "Loss of Appetite",
                      "None of These">>],
       [question |-> "How long have you had these symptoms?",
        options |-> <<"Recent (1-3 days)",
                      "Lasting (4-7 days)",
                      "Chronic (over 1 week)",
                      "Comes and Goes",
                      "Not Sure">>],
       [question |-> "How severe are your symptoms?",
        options |-> <<"Mild (can do daily activities)",
                      "Moderate (affects daily activities)",
                      "Severe (cannot do daily activities)",
                      "Not Sure">>] >>
  ]

\* the question dict of a flow as the routes pass it on: the i-th question
\* of the department with its text and with options of value and text
question_dict(dept, i) ==
  LET q == conversation_flows[dept][i]
      texts == display_texts[dept][i]
  IN  [id |-> q.id,
       question |-> texts.question,
       type |-> q.type,
       options |-> [j \in 1..Len(q.options) |->
                      [value |-> q.options[j], text |-> texts.options[j]]]]

\* the position of a question in the flow of its department
FlowIndex(dept, q) ==
  CHOOSE i \in 1..Len(conversation_flows[dept]) : conversation_flows[dept][i].id = q.id

\* the symptom_mapping table local to map_answers_to_symptoms
symptom_mapping ==
  [
    gastrointestinal |-> [
      upper_abdomen |-> "SYP_001", lower_abdomen |-> "SYP_007", right_side |-> "SYP_008",
      left_side |-> "SYP_009", whole_abdomen |-> "SYP_010", after_meals |-> "SYP_001",
      empty_stomach |-> "SYP_004", constant |-> "SYP_005", night_time |-> "SYP_006",
      burning |-> "SYP_011", cramping |-> "SYP_007", sharp |-> "SYP_008", dull |-> "SYP_005",
      nausea |-> "SYP_014", vomiting |-> "SYP_014", bloating |-> "SYP_025",
      heartburn |-> "SYP_011", belching |-> "SYP_026", loss_of_appetite |-> "SYP_027",
      constipation |-> "SYP_018", diarrhea |-> "SYP_019", alternating |-> "SYP_020",
      bloody_stools |-> "SYP_021", mucus_stools |-> "SYP_022", straining |-> "SYP_023",
      urgency |-> "SYP_024", fever |-> "SYP_028", jaundice |-> "SYP_029",
      painful_bowel_movement |-> "SYP_030" ],
    dermatology |-> [
      rash_bumps |-> "DER_001", dry_patches |-> "DER_004", oily_skin |-> "DER_005",
      color_changes |-> "DER_006", blisters |-> "DER_003", face |-> "DER_014",
      scalp |-> "DER_015", arms |-> "DER_016", legs |-> "DER_017", chest_back |-> "DER_018",
      all_over_body |-> "DER_019", itchy |-> "DER_002", burning |-> "DER_010",
      painful |-> "DER_011", tender |-> "DER_012", no_sensation |-> "DER_013",
      mild |-> "DER_020", moderate |-> "DER_021", severe |-> "DER_022", recent |-> "DER_024",
      chronic |-> "DER_025", recurring |-> "DER_026", food |-> "DER_027",
      weather |-> "DER_028", cosmetics |-> "DER_029", stress |-> "DER_030",
      medications |-> "DER_031", swelling |-> "DER_032", pus |-> "DER_033",
      hair_loss |-> "DER_034", nail_changes |-> "DER_035", fever |-> "DER_036" ],
    musculoskeletal |-> [
      neck |-> "MSK_001", shoulder |-> "MSK_002", upper_back |-> "MSK_003",
      lower_back |-> "MSK_004", hip |-> "MSK_005", knee |-> "MSK_006", elbow |-> "MSK_007",
      wrist |-> "MSK_008", ankle |-> "MSK_009", multiple_joints |-> "MSK_010",
      sharp_shooting |-> "MSK_011", dull_ache |-> "MSK_012", burning |-> "MSK_013",
      throbbing |-> "MSK_014", stabbing |-> "MSK_015", morning |-> "MSK_016",
      activity |-> "MSK_017", rest |-> "MSK_018", night |-> "MSK_019",
      constant |-> "MSK_020", difficulty_moving |-> "MSK_021", stiffness |-> "MSK_022",
      limited_range |-> "MSK_023", weakness |-> "MSK_024", giving_way |-> "MSK_025",
      swelling |-> "MSK_026", redness |-> "MSK_027", warmth |-> "MSK_028",
      tenderness |-> "MSK_029", recent_injury |-> "MSK_030", overuse |-> "MSK_031",
      sports |-> "MSK_032", fall |-> "MSK_033", acute |-> "MSK_034", subacute |-> "MSK_035",
      chronic |-> "MSK_036", recurring |-> "MSK_037", numbness |-> "MSK_038",
      tingling |-> "MSK_039", muscle_spasms |-> "MSK_040", fatigue |-> "MSK_041",
      fever |-> "MSK_042" ],
    mental_health |-> [
      sadness |-> "MH_001", anxiety |-> "MH_002", irritability |-> "MH_003",
      mood_swings |-> "MH_004", emotional_numbness |-> "MH_005", sleep_problems |-> "MH_006",
      appetite_changes |-> "MH_007", fatigue |-> "MH_008", body_aches |-> "MH_009",
      digestive_issues |-> "MH_010", concentration |-> "MH_011", memory |-> "MH_012",
      indecisiveness |-> "MH_013", racing_thoughts |-> "MH_014",
      negative_thoughts |-> "MH_015", social_withdrawal |-> "MH_016",
      loss_interest |-> "MH_017", agitation |-> "MH_018", procrastination |-> "MH_019",
      routine_changes |-> "MH_020", recent |-> "MH_021", chronic |-> "MH_022",
      daily |-> "MH_023", episodic |-> "MH_024", constant |-> "MH_025",
      work_school |-> "MH_026", relationships |-> "MH_027", self_care |-> "MH_028",
      daily_tasks |-> "MH_029", work_stress |-> "MH_030", relationship_stress |-> "MH_031",
      financial_stress |-> "MH_032", health_concerns |-> "MH_033", life_changes |-> "MH_034",
      panic_attacks |-> "MH_035", suicidal_thoughts |-> "MH_036", self_harm |-> "MH_037",
      detachment |-> "MH_038", extreme_fear |-> "MH_039" ],
    first_aid |-> [
      cuts |-> "FA_001", burns |-> "FA_002", sprains |-> "FA_004", fractures |-> "FA_005",
      bleeding |-> "FA_009", bites |-> "FA_007", minor_bleeding |-> "FA_009",
      heavy_bleeding |-> "FA_010", no_bleeding |-> "FA_011", mild_pain |-> "FA_012",
      moderate_pain |-> "FA_013", severe_pain |-> "FA_014", breathing |-> "FA_024",
      unconscious |-> "FA_025", allergy |-> "FA_026", chest_pain |-> "FA_027",
      head_injury |-> "FA_028", full_movement |-> "FA_018", limited_movement |-> "FA_019",
      no_movement |-> "FA_020" ],
    general_medicine |-> [
      fever |-> "GM_001", cough |-> "GM_005", sore_throat |-> "GM_006",
      runny_nose |-> "GM_007", headache |-> "GM_010", body_aches |-> "GM_019",
      nausea |-> "GM_014", diarrhea |-> "GM_016", mild_fever |-> "GM_001",
      high_fever |-> "GM_002", chills |-> "GM_003", no_fever |-> "GM_001",
      congestion |-> "GM_008", shortness |-> "GM_009", chest_pain |-> "GM_031",
      sinus |-> "GM_012", vomiting |-> "GM_015", abdominal_pain |-> "GM_017",
      loss_appetite |-> "GM_018", recent |-> "GM_023", lasting |-> "GM_024",
      chronic |-> "GM_025", recurring |-> "GM_026", mild |-> "GM_027", moderate |-> "GM_028",
      severe |-> "GM_029" ]
  ]

----------------------------------------------------------------------------
(* Flow controller *)

\* a scan that never takes a question for answered
never_answered(q, current_answers) == FALSE

\* line 691: question['id'] in current_answers
already_answered(q, current_answers) == DictHas(current_answers, q.id)

\* a scan that takes every dependency for met
dependency_ignored(q, current_answers) == TRUE

\* lines 695-702: the question carries no depends_on, or every
\* (dep_key, dep_value) of it equals current_answers.get(dep_key)
dependency_met(q, current_answers) ==
  "depends_on" \in DOMAIN q =>
    \A j \in 1..Len(q.depends_on) :
      DictGet(current_answers, q.depends_on[j][1]) = q.depends_on[j][2]

\* the for loop of get_next_question from position i on
RECURSIVE ScanFlow(_, _, _)
ScanFlow(flow, i, current_answers) ==
  IF i > Len(flow) THEN None
  ELSE IF already_answered(flow[i], current_answers) THEN ScanFlow(flow, i + 1, current_answers)
  ELSE IF ~dependency_met(flow[i], current_answers) THEN ScanFlow(flow, i + 1, current_answers)
  ELSE flow[i]

Reverse(seq) == [i \in 1..Len(seq) |-> seq[Len(seq) + 1 - i]]

\* a scan that walks the flow from its last question backwards
get_next_question_backwards(dept, current_answers) ==
  IF dept \notin DOMAIN conversation_flows
    THEN None
    ELSE ScanFlow(Reverse(conversation_flows[dept]), 1, current_answers)

\* a lookup of the flow without the membership test of line 684
get_next_question_unguarded(dept, current_answers) ==
  IF dept \notin DOMAIN conversation_flows
    THEN Raise("KeyError")
    ELSE ScanFlow(conversation_flows[dept], 1, current_answers)

get_next_question(dept, current_answers) ==
  IF dept \notin DOMAIN conversation_flows
    THEN None
    ELSE ScanFlow(conversation_flows[dept], 1, current_answers)

----------------------------------------------------------------------------
(* Symptom normaliser *)

\* a normaliser without the `symptom_id not in symptoms` test
AddSymptom_always_appends(acc, dept, item) ==
  IF item # "" /\ item # "none" /\ item \in DOMAIN symptom_mapping[dept]
    THEN Append(acc, symptom_mapping[dept][item])
    ELSE acc

\* a normaliser that keeps a token without an entry as its own id and has
\* no test for "none"
AddSymptom_raw_fallback(acc, dept, item) ==
  IF item # ""
    THEN LET symptom_id == IF item \in DOMAIN symptom_mapping[dept]
                             THEN symptom_mapping[dept][item]
                             ELSE item
         IN  IF \E i \in 1..Len(acc) : acc[i] = symptom_id
               THEN acc
               ELSE Append(acc, symptom_id)
    ELSE acc

\* lines 919-922 / 924-927: one token against the department's table
AddSymptom(acc, dept, item) ==
  IF item # "" /\ item # "none" /\ item \in DOMAIN symptom_mapping[dept]
    THEN LET symptom_id == symptom_mapping[dept][item]
         IN  IF \E i \in 1..Len(acc) : acc[i] = symptom_id
               THEN acc
               ELSE Append(acc, symptom_id)
    ELSE acc

\* the inner loop over the members of a list answer
RECURSIVE AddItems(_, _, _, _)
AddItems(acc, dept, items, j) ==
  IF j > Len(items) THEN acc
  ELSE AddItems(AddSymptom(acc, dept, items[j]), dept, items, j + 1)

\* a normaliser that handles list answers only
AddAnswer_lists_only(acc, dept, answer_value) ==
  IF IsList(answer_value)
    THEN AddItems(acc, dept, answer_value.items, 1)
    ELSE acc

\* one answers.items() entry: a list is iterated, anything else is taken as
\* a single token (falsy values are skipped)
AddAnswer(acc, dept, answer_value) ==
  IF IsList(answer_value)
    THEN AddItems(acc, dept, answer_value.items, 1)
    ELSE IF Truthy(answer_value) THEN AddSymptom(acc, dept, answer_value.s) ELSE acc

\* the outer loop over answers.items(), in insertion order
RECURSIVE AddAnswers(_, _, _, _)
AddAnswers(acc, dept, ans, i) ==
  IF i > Len(ans) THEN acc
  ELSE AddAnswers(AddAnswer(acc, dept, ans[i].value), dept, ans, i + 1)

\* a lookup of the table without the membership test of line 914
map_answers_to_symptoms_unguarded(dept, ans) ==
  IF dept \in DOMAIN symptom_mapping
    THEN List(AddAnswers(<<>>, dept, ans, 1))
    ELSE Raise("KeyError")

map_answers_to_symptoms(dept, ans) ==
  IF dept \in DOMAIN symptom_mapping
    THEN List(AddAnswers(<<>>, dept, ans, 1))
    ELSE List(<<>>)

----------------------------------------------------------------------------
(* Condition matcher *)

RECURSIVE Gcd(_, _)
Gcd(a, b) == IF b = 0 THEN a ELSE Gcd(b, a % b)

\* line 950: (match_count / total_possible) * 100 if total_possible > 0
\* else 0, kept as a fraction in lowest terms (two floats computed this way
\* are equal, or ordered, as the fractions are)
match_percentage(match_count, total_possible) ==
  IF total_possible > 0
    THEN LET g == Gcd(match_count * 100, total_possible)
         IN  [num |-> (match_count * 100) \div g, den |-> total_possible \div g]
    ELSE [num |-> 0, den |-> 1]

\* p >= n for a percentage p and an integer n
PercentAtLeast(p, n) == p.num >= n * p.den

\* an admission by percentage alone
admitted_by_percentage(match_count, percentage) ==
  match_count >= 1 /\ PercentAtLeast(percentage, 30)

\* an admission that takes every condition of the catalog
admitted_always(match_count, percentage) == TRUE

\* line 954: the admission thresholds
admitted(match_count, percentage) ==
  match_count >= 2 \/ (match_count >= 1 /\ PercentAtLeast(percentage, 30))

\* a condition_info that counts every position of the symptom list that
\* holds a required symptom, a repeated id as often as it is listed
condition_info_counting_repeats(dept_data, disease, symptom_list) ==
  LET disease_symptoms == IF "symptoms" \in DOMAIN disease THEN disease.symptoms ELSE <<>>
      required == {disease_symptoms[i] : i \in 1..Len(disease_symptoms)}
      match_count == Cardinality({i \in 1..Len(symptom_list) : symptom_list[i] \in required})
      total_possible == Len(disease_symptoms)
  IN  [disease_id |-> disease.id,
       disease_name |-> disease.name,
       match_score |-> match_count,
       match_percentage |-> match_percentage(match_count, total_possible),
       matching_symptoms |-> {symptom_list[i] : i \in 1..Len(symptom_list)} \cap required,
       total_disease_symptoms |-> total_possible,
       symptoms |-> disease_symptoms,
       treatments |-> IF disease.id \in DOMAIN dept_data.treatments
                        THEN dept_data.treatments[disease.id]
                        ELSE [k \in {} |-> k]]

\* lines 942-964: the condition_info of one disease
condition_info(dept_data, disease, symptom_list) ==
  LET disease_symptoms == IF "symptoms" \in DOMAIN disease THEN disease.symptoms ELSE <<>>
      matching_symptoms ==
        {symptom_list[i] : i \in 1..Len(symptom_list)}
          \cap {disease_symptoms[i] : i \in 1..Len(disease_symptoms)}
      match_count == Cardinality(matching_symptoms)
      total_possible == Len(disease_symptoms)
  IN  [disease_id |-> disease.id,
       disease_name |-> disease.name,
       match_score |-> match_count,
       match_percentage |-> match_percentage(match_count, total_possible),
       matching_symptoms |-> matching_symptoms,
       total_disease_symptoms |-> total_possible,
       symptoms |-> disease_symptoms,
       treatments |-> IF disease.id \in DOMAIN dept_data.treatments
                        THEN dept_data.treatments[disease.id]
                        ELSE [k \in {} |-> k]]

\* lines 941-965: the admitted conditions, in catalog order
RECURSIVE MatchDiseases(_, _, _, _)
MatchDiseases(dept_data, symptom_list, i, acc) ==
  IF i > Len(dept_data.diseases) THEN acc
  ELSE LET info == condition_info(dept_data, dept_data.diseases[i], symptom_list)
       IN  MatchDiseases(dept_data, symptom_list, i + 1,
             IF admitted(info.match_score, info.match_percentage)
               THEN Append(acc, info)
               ELSE acc)

\* a sort key of the match_score alone
KeyLess_by_count(x, y) == x.match_score < y.match_score

\* the sort key (match_score, match_percentage) of x is below that of y
KeyLess(x, y) ==
  \/ x.match_score < y.match_score
  \/ /\ x.match_score = y.match_score
     /\ x.match_percentage.num * y.match_percentage.den
          < y.match_percentage.num * x.match_percentage.den

\* an ascending stable sort read backwards: x goes in front of every
\* element whose key is not above its own
InsertDescending_before_equals(sorted, x) ==
  LET n == Cardinality({i \in 1..Len(sorted) : KeyLess(x, sorted[i])})
  IN  [i \in 1..(Len(sorted) + 1) |->
        IF i <= n THEN SelectSeq(sorted, LAMBDA e : KeyLess(x, e))[i]
        ELSE IF i = n + 1 THEN x
        ELSE SelectSeq(sorted, LAMBDA e : ~KeyLess(x, e))[i - n - 1]]

\* line 968: list.sort(key=..., reverse=True) is stable: x goes behind every
\* element whose key is not below its own
InsertDescending(sorted, x) ==
  LET n == Cardinality({i \in 1..Len(sorted) : ~KeyLess(sorted[i], x)})
  IN  [i \in 1..(Len(sorted) + 1) |->
        IF i <= n THEN SelectSeq(sorted, LAMBDA e : ~KeyLess(e, x))[i]
        ELSE IF i = n + 1 THEN x
        ELSE SelectSeq(sorted, LAMBDA e : KeyLess(e, x))[i - n - 1]]

RECURSIVE SortDescending(_, _, _)
SortDescending(seq, i, acc) ==
  IF i > Len(seq) THEN acc
  ELSE SortDescending(seq, i + 1, InsertDescending(acc, seq[i]))

\* a matcher that answers an unknown department with an empty list
find_condition_by_symptoms_fail_soft(data, dept, symptom_list) ==
  IF dept \notin DOMAIN data
    THEN List(<<>>)
    ELSE LET dept_data == data[dept]
         IN  IF "diseases" \in DOMAIN dept_data /\ "treatments" \in DOMAIN dept_data
               THEN List(SortDescending(
                           MatchDiseases(dept_data, symptom_list, 1, <<>>), 1, <<>>))
               ELSE List(<<>>)

\* a matcher that asks for the condition list only and takes a missing
\* treatment table as an empty one
find_condition_by_symptoms_diseases_only(data, dept, symptom_list) ==
  IF dept \notin DOMAIN data
    THEN None
    ELSE LET dept_data == data[dept]
         IN  IF "diseases" \in DOMAIN dept_data
               THEN List(SortDescending(
                           MatchDiseases(
                             [diseases |-> dept_data.diseases,
                              treatments |-> IF "treatments" \in DOMAIN dept_data
                                               THEN dept_data.treatments
                                               ELSE [k \in {} |-> k]],
                             symptom_list, 1, <<>>), 1, <<>>))
               ELSE List(<<>>)

\* a matcher that indexes the treatment table with the id of each admitted
\* condition: the call ends in a KeyError when one of them has no entry
find_condition_by_symptoms_indexing(data, dept, symptom_list) ==
  IF dept \notin DOMAIN data
    THEN None
    ELSE LET dept_data == data[dept]
         IN  IF "diseases" \in DOMAIN dept_data /\ "treatments" \in DOMAIN dept_data
               THEN LET found == MatchDiseases(dept_data, symptom_list, 1, <<>>)
                    IN  IF \E i \in 1..Len(found) :
                             found[i].disease_id \notin DOMAIN dept_data.treatments
                          THEN Raise("KeyError")
                          ELSE List(SortDescending(found, 1, <<>>))
               ELSE List(<<>>)

\* lines 932-969
find_condition_by_symptoms(data, dept, symptom_list) ==
  IF dept \notin DOMAIN data
    THEN None
    ELSE LET dept_data == data[dept]
         IN  IF "diseases" \in DOMAIN dept_data /\ "treatments" \in DOMAIN dept_data
               THEN List(SortDescending(
                           MatchDiseases(dept_data, symptom_list, 1, <<>>), 1, <<>>))
               ELSE List(<<>>)

----------------------------------------------------------------------------
(* Inputs *)

\* The catalog files data/<dept>.json as load_all_departments finds them.  The
\* files are not part of the source; these are catalogs over the symptom
\* ids of the tables above, one per shape the matcher distinguishes: a full
\* catalog, one without a treatment table, one without a condition list,
\* an empty document, a missing file and a file that cannot be parsed.
data_files ==
  [d \in {DEPARTMENTS[i] : i \in 1..Len(DEPARTMENTS)} |->
     IF d = "gastrointestinal"
       THEN [status |-> "ok",
             json |->
               [diseases |->
                  << [id |-> "DIS_01", name |-> "Gastritis",
                      symptoms |-> <<"SYP_001", "SYP_011", "SYP_014">>],
                     [id |-> "DIS_02", name |-> "Acid Reflux",
                      symptoms |-> <<"SYP_011", "SYP_025", "SYP_026", "SYP_004", "SYP_027">>],
                     [id |-> "DIS_03", name |-> "Irritable Bowel",
                      symptoms |-> <<"SYP_018", "SYP_019", "SYP_020">>],
                     [id |-> "DIS_04", name |-> "Dyspepsia",
                      symptoms |-> <<"SYP_001", "SYP_011", "SYP_025">>],
                     [id |-> "DIS_05", name |-> "Peptic Ulcer",
                      symptoms |-> <<"SYP_014", "SYP_018", "SYP_005", "SYP_006",
                                     "SYP_021", "SYP_028", "SYP_004">>],
                     [id |-> "DIS_06", name |-> "Unspecified", symptoms |-> <<>>],
                     [id |-> "DIS_07", name |-> "Undescribed"] >>,
                treatments |->
                  [DIS_01 |-> [allopathy |-> List(<<"antacid", "rest">>),
                               home_remedy |-> Str("please consult doctor")],
                   DIS_02 |-> [allopathy |-> List(<<"antacid">>),
                               home_remedy |-> List(<<"small meals">>)],
                   DIS_04 |-> [allopathy |-> List(<<"antacid">>)],
                   DIS_05 |-> [allopathy |-> Str("please consult doctor")]]]]
     ELSE IF d = "dermatology"
       THEN [status |-> "ok",
             json |->
               [diseases |->
                  << [id |-> "DER_DIS_01", name |-> "Acne",
                      symptoms |-> <<"DER_001", "DER_005">>] >>]]
     ELSE IF d = "musculoskeletal"
       THEN [status |-> "ok",
             json |->
               [treatments |->
                  [MSK_DIS_01 |-> [allopathy |-> List(<<"rest">>)]]]]
     ELSE IF d = "general_medicine"
       THEN [status |-> "ok", json |-> [k \in {} |-> k]]
     ELSE IF d = "mental_health"
       THEN [status |-> "missing"]
       ELSE [status |-> "unreadable"]]

\* lines 137-150: every configured department gets an entry, the parsed
\* document, or {} where the file is missing or reading it raised
load_all_departments(files) ==
  [d \in {DEPARTMENTS[i] : i \in 1..Len(DEPARTMENTS)} |->
     IF files[d].status = "ok" THEN files[d].json ELSE [k \in {} |-> k]]

\* chatbot.departments_data (line 972: the chatbot is built once, at import)
departments_data == load_all_departments(data_files)

\* the most entries the caller has put into the answer dict before the
\* interview is followed question by question
MaxAnswers == 2

\* a department id that is in none of the tables
UnknownDepartment == "cardiology"

\* a question id that is in no flow
ForeignKey == "treatment_preference"

\* a token that has no entry in any symptom table
UnmappedToken == "itchy_elbow"

\* the department ids a call may carry
DepartmentInputs == {DEPARTMENTS[i] : i \in 1..Len(DEPARTMENTS)} \cup {UnknownDepartment}

\* question ids the caller may post an answer under
KeyInputs(dept) ==
  IF dept \in DOMAIN conversation_flows
    THEN LET flow == conversation_flows[dept]
         IN  {flow[1].id, flow[2].id, ForeignKey}
    ELSE {"symptom_location", ForeignKey}

\* answer values the caller may post
AnswerValues ==
  { Str("upper_abdomen"), Str("none"), Str(""), Str(UnmappedToken),
    List(<<>>), List(<<"upper_abdomen", "after_meals">>),
    List(<<UnmappedToken, "", "none", "burning", "none", "burning">>) }

\* the entry sequences of length n over the keys and values
RECURSIVE DictsOfSize(_, _, _)
DictsOfSize(keys, values, n) ==
  IF n = 0 THEN {EmptyDict}
  ELSE { Append(d, [key |-> k, value |-> v]) :
           d \in DictsOfSize(keys, values, n - 1), k \in keys, v \in values }

\* the answer dicts the interview starts from: up to MaxAnswers entries
\* under distinct keys, in every insertion order
AnswerInputs(dept) ==
  { d \in UNION {DictsOfSize(KeyInputs(dept), AnswerValues, n) : n \in 0..MaxAnswers} :
      \A i, j \in 1..Len(d) : i # j => d[i].key # d[j].key }

\* the answer a caller following the interview gives to a presented
\* question: its first option, or its first two where several may be chosen
ScriptAnswer(q) ==
  IF q.type = "multiple_choice"
    THEN List(<<q.options[1], q.options[2]>>)
    ELSE Str(q.options[1])

----------------------------------------------------------------------------
(* Translation helper: languages, provider, pool tasks and calls *)

\* lines 31-45: the language codes the application offers
LANGUAGES ==
  {"en", "es", "fr", "de", "hi", "ta", "te", "kn", "ml", "bn", "gu", "mr", "pa"}

\* line 51: ThreadPoolExecutor(max_workers=4)
max_workers == 4

\* the request threads that run at the same time, each with its own session
Callers == 1..2

\* the most tasks the pool holds at a time, orphaned ones included, and the
\* most provider invocations followed, where threads set their language and
\* translate two texts
MaxTasks == 3

MaxProviderCalls == 3

\* texts handed to translate_text
TextInputs == {"", "Fever", "Rest"}

\* language codes posted to set_language
LanguageInputs == {"en", "hi", "xx"}

\* language codes posted to start_chat
StartLanguageInputs == {"en", "hi"}

\* the session has no 'language' key
NoLanguage == "(unset)"

\* line 58: session.get("language", "en")
SessionLanguage(c) ==
  IF session_language[c] = NoLanguage THEN "en" ELSE session_language[c]

\* line 68: what GoogleTranslator(source="auto", target=lang).translate(text)
\* returns when it returns: the text in the target language
provider_translate(text, lang) == lang \o ":" \o text

\* line 62: key = (text, lang)
CacheKey(text, lang) == <<text, lang>>

\* a task of the pool: do_translate for a text and a language, submitted by
\* the thread `owner` (0 once that thread stopped waiting for it); it is
\* queued, running (the provider was called), returned (the provider
\* returned) or raised (the provider raised)
Task(owner, text, lang) ==
  [owner |-> owner, text |-> text, lang |-> lang, state |-> "queued"]

\* lines 66-71: what do_translate returns, the translation, or the text when
\* the provider raised
do_translate(task) ==
  IF task.state = "returned"
    THEN provider_translate(task.text, task.lang)
    ELSE task.text

\* the task a waiting thread holds the future of
OwnTaskIndex(c) ==
  CHOOSE i \in 1..Len(translator_pool) : translator_pool[i].owner = c

OwnTask(c) == translator_pool[OwnTaskIndex(c)]

\* a sequence without its i-th element
RemoveAt(seq, i) ==
  [j \in 1..(Len(seq) - 1) |-> IF j < i THEN seq[j] ELSE seq[j + 1]]

\* a thread that is not in translate_text
IdleCall == [pc |-> "idle", text |-> "", lang |-> "en", result |-> NotCalled, line |-> 0]

\* translate_text returned (or raised) `result` at line `line`
Returned(text, lang, result, line) ==
  [pc |-> "returned", text |-> text, lang |-> lang, result |-> result, line |-> line]

\* translate_text is between two of its steps
InCall(pc, text, lang) ==
  [pc |-> pc, text |-> text, lang |-> lang, result |-> NotCalled, line |-> 0]

\* the thread can start a request
Free(c) == calls[c].pc \in {"idle", "returned"}

\* lines 50-52 and a fresh session per client
TranslationIdle ==
  /\ session_language = [c \in Callers |-> NoLanguage]
  /\ translation_cache = EmptyDict
  /\ translator_pool = <<>>
  /\ calls = [c \in Callers |-> IdleCall]
  /\ provider_calls = 0

----------------------------------------------------------------------------
(* Session layer: the session of a client and the responses of the routes *)

\* a session without the keys start_chat sets: a new one, or one that
\* restart_chat cleared
NoSession ==
  [started |-> FALSE, department |-> "", answers |-> EmptyDict,
   current_step |-> 0, treatment_type |-> None]

\* no route has answered yet
NoResponse == [kind |-> "none"]

\* no request of the client has been handled and translate_question has
\* not been called
RouteIdle ==
  /\ session = NoSession
  /\ response = NoResponse
  /\ question_call = NotCalled
  /\ catalog_writes = EmptyDict

----------------------------------------------------------------------------
(* State machine *)

Init ==
  /\ RouteIdle
  /\ department \in DepartmentInputs
  /\ answers \in AnswerInputs(department)
  /\ question = NotCalled
  /\ symptoms = NotCalled
  /\ again = FALSE
  /\ presented = <<>>
  /\ matched = NotCalled
  /\ TranslationIdle

\* a get_next_question that records the question it returns as asked, in
\* the caller's answers
GetNextQuestion_marking ==
  /\ question' = get_next_question(department, answers)
  /\ answers' = IF IsQuestion(question')
                  THEN DictSet(answers, question'.id, None)
                  ELSE answers
  /\ again' = (question # NotCalled)
  /\ presented' = IF question = NotCalled /\ IsQuestion(question')
                    THEN Append(presented, question'.id)
                    ELSE presented
  /\ UNCHANGED <<department, symptoms, matched>>
  /\ UNCHANGED <<translation_vars, route_vars>>

\* question = chatbot.get_next_question(department, answers); a question
\* returned to a caller that holds none is presented
GetNextQuestion ==
  /\ question' = get_next_question(department, answers)
  /\ again' = (question # NotCalled)
  /\ presented' = IF question = NotCalled /\ IsQuestion(question')
                    THEN Append(presented, question'.id)
                    ELSE presented
  /\ UNCHANGED <<department, answers, symptoms, matched>>
  /\ UNCHANGED <<translation_vars, route_vars>>

\* a map_answers_to_symptoms that deletes the "none" answers from the
\* caller's dict while it normalises
MapAnswersToSymptoms_pruning ==
  /\ symptoms' = map_answers_to_symptoms(department, answers)
  /\ answers' = SelectSeq(answers, LAMBDA e : e.value # Str("none"))
  /\ UNCHANGED <<department, question, again, presented, matched>>
  /\ UNCHANGED <<translation_vars, route_vars>>

\* symptoms = chatbot.map_answers_to_symptoms(department, answers)
MapAnswersToSymptoms ==
  /\ symptoms' = map_answers_to_symptoms(department, answers)
  /\ UNCHANGED <<department, answers, question, again, presented, matched>>
  /\ UNCHANGED <<translation_vars, route_vars>>

\* matched_conditions = chatbot.find_condition_by_symptoms(department, symptoms)
FindConditionBySymptoms ==
  /\ symptoms.tag = "list"
  /\ matched' = find_condition_by_symptoms(departments_data, department, symptoms.items)
  /\ UNCHANGED <<department, answers, question, symptoms, again, presented>>
  /\ UNCHANGED <<translation_vars, route_vars>>

\* session['answers'][question_id] = answer, for the question just presented
RecordAnswer ==
  /\ IsQuestion(question)
  /\ answers' = DictSet(answers, question.id, ScriptAnswer(question))
  /\ question' = NotCalled
  /\ symptoms' = NotCalled
  /\ matched' = NotCalled
  /\ again' = FALSE
  /\ UNCHANGED <<department, presented>>
  /\ UNCHANGED <<translation_vars, route_vars>>

Next ==
  \/ GetNextQuestion
  \/ MapAnswersToSymptoms
  \/ FindConditionBySymptoms
  \/ RecordAnswer

Spec == Init /\ [][Next]_vars

----------------------------------------------------------------------------
(* The interview on its own: every configured flow, from no answers, each  *)
(* presented question answered with one of its own option values.          *)

\* the departments that have a flow
FlowDepartments == {DEPARTMENTS[i] : i \in 1..Len(DEPARTMENTS)}

\* answers a client picks for a presented question: its first or its last
\* option; where several may be chosen, its first two or its last alone
OptionAnswers(q) ==
  IF q.type = "multiple_choice"
    THEN {List(<<q.options[1], q.options[2]>>), List(<<q.options[Len(q.options)]>>)}
    ELSE {Str(q.options[1]), Str(q.options[Len(q.options)])}

InterviewInit ==
  /\ RouteIdle
  /\ department \in FlowDepartments
  /\ answers = EmptyDict
  /\ question = NotCalled
  /\ symptoms = NotCalled
  /\ again = FALSE
  /\ presented = <<>>
  /\ matched = NotCalled
  /\ TranslationIdle

\* an answer_question that drops the answer instead of storing it
RecordOption_discarding(answer) ==
  /\ IsQuestion(question)
  /\ question' = NotCalled
  /\ symptoms' = NotCalled
  /\ matched' = NotCalled
  /\ again' = FALSE
  /\ UNCHANGED <<department, answers, presented>>
  /\ UNCHANGED <<translation_vars, route_vars>>

\* session['answers'][question_id] = answer, for the question just
\* presented and an answer the client picked
RecordOption(answer) ==
  /\ IsQuestion(question)
  /\ answers' = DictSet(answers, question.id, answer)
  /\ question' = NotCalled
  /\ symptoms' = NotCalled
  /\ matched' = NotCalled
  /\ again' = FALSE
  /\ UNCHANGED <<department, presented>>
  /\ UNCHANGED <<translation_vars, route_vars>>

InterviewNext ==
  \/ GetNextQuestion
  \/ /\ IsQuestion(question)
     /\ \E answer \in OptionAnswers(question) : RecordOption(answer)

InterviewSpec == InterviewInit /\ [][InterviewNext]_vars

----------------------------------------------------------------------------
(* The condition matcher on its own: find_condition_by_symptoms applied to  *)
(* every department id and every symptom list of the bounded input set.    *)

\* the longest symptom list handed to the matcher
MaxSymptoms == 3

\* symptom ids a list may carry: ids of the gastrointestinal and of the
\* dermatology conditions
SymptomIdInputs ==
  {"SYP_001", "SYP_011", "SYP_014", "SYP_018", "SYP_025", "DER_001"}

\* the symptom lists, repeated ids included
SymptomInputs ==
  {List(s) : s \in UNION {[1..n -> SymptomIdInputs] : n \in 0..MaxSymptoms}}

MatcherInit ==
  /\ RouteIdle
  /\ department \in DepartmentInputs
  /\ symptoms \in SymptomInputs
  /\ answers = EmptyDict
  /\ question = NotCalled
  /\ again = FALSE
  /\ presented = <<>>
  /\ matched = NotCalled
  /\ TranslationIdle

MatcherNext == FindConditionBySymptoms

MatcherSpec == MatcherInit /\ [][MatcherNext]_vars

----------------------------------------------------------------------------
(* The translation helper: request threads that set their language and    *)
(* call translate_text, the pool's workers and the provider.               *)

\* a set_language that leaves the cache as it is
SetLanguage_keeping_cache(c, language) ==
  /\ Free(c)
  /\ IF language \in LANGUAGES
       THEN session_language' = [session_language EXCEPT ![c] = language]
       ELSE UNCHANGED session_language
  /\ UNCHANGED <<translation_cache, translator_pool, calls, provider_calls>>
  /\ UNCHANGED <<engine_vars, route_vars>>

\* lines 979-988: set_language, which clears the cache for a known code
SetLanguage(c, language) ==
  /\ Free(c)
  /\ IF language \in LANGUAGES
       THEN /\ session_language' = [session_language EXCEPT ![c] = language]
            /\ translation_cache' = EmptyDict
       ELSE UNCHANGED <<session_language, translation_cache>>
  /\ UNCHANGED <<translator_pool, calls, provider_calls>>
  /\ UNCHANGED <<engine_vars, route_vars>>

\* lines 999-1004 of start_chat for a configured department, as the
\* translation helper sees them: the session gets the language of the
\* request, whatever it is, and the cache is not touched.  The translations
\* of lines 1008-1010 are calls of translate_text that follow.
StartChat(c, language) ==
  /\ Free(c)
  /\ session_language' = [session_language EXCEPT ![c] = language]
  /\ UNCHANGED <<translation_cache, translator_pool, calls, provider_calls>>
  /\ UNCHANGED <<engine_vars, route_vars>>

\* a translate_text without the return of lines 59-60
TranslateText_Enter_no_fast_path(c, text) ==
  LET lang == SessionLanguage(c)
  IN  /\ Free(c)
      /\ IF text = ""
           THEN /\ calls' = [calls EXCEPT ![c] = Returned(text, lang, Str(text), 57)]
                /\ UNCHANGED translator_pool
         ELSE IF DictHas(translation_cache, CacheKey(text, lang))
           THEN /\ calls' = [calls EXCEPT ![c] = InCall("cache_hit", text, lang)]
                /\ UNCHANGED translator_pool
           ELSE /\ calls' = [calls EXCEPT ![c] = InCall("waiting", text, lang)]
                /\ translator_pool' = Append(translator_pool, Task(c, text, lang))
      /\ UNCHANGED <<session_language, translation_cache, provider_calls>>
      /\ UNCHANGED <<engine_vars, route_vars>>

\* lines 56-73: the early returns, the cache test and, on a miss, the
\* submission of do_translate to the pool
TranslateText_Enter(c, text) ==
  LET lang == SessionLanguage(c)
  IN  /\ Free(c)
      /\ IF text = ""
           THEN /\ calls' = [calls EXCEPT ![c] = Returned(text, lang, Str(text), 57)]
                /\ UNCHANGED translator_pool
         ELSE IF lang = "en"
           THEN /\ calls' = [calls EXCEPT ![c] = Returned(text, lang, Str(text), 60)]
                /\ UNCHANGED translator_pool
         ELSE IF DictHas(translation_cache, CacheKey(text, lang))
           THEN /\ calls' = [calls EXCEPT ![c] = InCall("cache_hit", text, lang)]
                /\ UNCHANGED translator_pool
           ELSE /\ calls' = [calls EXCEPT ![c] = InCall("waiting", text, lang)]
                /\ translator_pool' = Append(translator_pool, Task(c, text, lang))
      /\ UNCHANGED <<session_language, translation_cache, provider_calls>>
      /\ UNCHANGED <<engine_vars, route_vars>>

\* line 64: return translation_cache[key], a KeyError when the entry was
\* removed since the test of line 63
TranslateText_ReadCache(c) ==
  LET call == calls[c]
      key == CacheKey(call.text, call.lang)
  IN  /\ call.pc = "cache_hit"
      /\ calls' = [calls EXCEPT ![c] =
                     Returned(call.text, call.lang,
                              IF DictHas(translation_cache, key)
                                THEN Str(DictGet(translation_cache, key))
                                ELSE Raise("KeyError"),
                              64)]
      /\ UNCHANGED <<session_language, translation_cache, translator_pool, provider_calls>>
      /\ UNCHANGED <<engine_vars, route_vars>>

\* a pool that starts a thread for every queued task
WorkerStart_unlimited ==
  /\ \E i \in 1..Len(translator_pool) :
       /\ translator_pool[i].state = "queued"
       /\ \A j \in 1..(i - 1) : translator_pool[j].state # "queued"
       /\ translator_pool' = [translator_pool EXCEPT ![i].state = "running"]
  /\ provider_calls' = provider_calls + 1
  /\ UNCHANGED <<session_language, translation_cache, calls>>
  /\ UNCHANGED <<engine_vars, route_vars>>

\* a free worker takes the oldest queued task and calls the provider (line 68)
WorkerStart ==
  /\ Cardinality({i \in 1..Len(translator_pool) : translator_pool[i].state = "running"})
       < max_workers
  /\ \E i \in 1..Len(translator_pool) :
       /\ translator_pool[i].state = "queued"
       /\ \A j \in 1..(i - 1) : translator_pool[j].state # "queued"
       /\ translator_pool' = [translator_pool EXCEPT ![i].state = "running"]
  /\ provider_calls' = provider_calls + 1
  /\ UNCHANGED <<session_language, translation_cache, calls>>
  /\ UNCHANGED <<engine_vars, route_vars>>

\* a do_translate that stores its own result, waited for or not
ProviderEnds_storing(i, outcome) ==
  /\ i \in 1..Len(translator_pool)
  /\ translator_pool[i].state = "running"
  /\ translator_pool' =
       IF translator_pool[i].owner = 0
         THEN RemoveAt(translator_pool, i)
         ELSE [translator_pool EXCEPT ![i].state = outcome]
  /\ translation_cache' =
       DictSet(translation_cache,
               CacheKey(translator_pool[i].text, translator_pool[i].lang),
               do_translate([translator_pool[i] EXCEPT !.state = outcome]))
  /\ UNCHANGED <<session_language, calls, provider_calls>>
  /\ UNCHANGED <<engine_vars, route_vars>>

\* the provider call of a running task ends, by a return or by an exception;
\* the result of a task nobody waits for is dropped with the task
ProviderEnds(i, outcome) ==
  /\ i \in 1..Len(translator_pool)
  /\ translator_pool[i].state = "running"
  /\ translator_pool' =
       IF translator_pool[i].owner = 0
         THEN RemoveAt(translator_pool, i)
         ELSE [translator_pool EXCEPT ![i].state = outcome]
  /\ UNCHANGED <<session_language, translation_cache, calls, provider_calls>>
  /\ UNCHANGED <<engine_vars, route_vars>>

\* a FutureResult that returns the translation and stores nothing
FutureResult_without_store(c) ==
  LET call == calls[c]
      translated == do_translate(OwnTask(c))
  IN  /\ call.pc = "waiting"
      /\ OwnTask(c).state \in {"returned", "raised"}
      /\ calls' = [calls EXCEPT ![c] =
                     Returned(call.text, call.lang, Str(translated), 77)]
      /\ translator_pool' = RemoveAt(translator_pool, OwnTaskIndex(c))
      /\ UNCHANGED <<session_language, translation_cache, provider_calls>>
      /\ UNCHANGED <<engine_vars, route_vars>>

\* lines 75-77: future.result returns what do_translate returned, which is
\* stored under the key and returned
FutureResult(c) ==
  LET call == calls[c]
      translated == do_translate(OwnTask(c))
  IN  /\ call.pc = "waiting"
      /\ OwnTask(c).state \in {"returned", "raised"}
      /\ translation_cache' =
           DictSet(translation_cache, CacheKey(call.text, call.lang), translated)
      /\ calls' = [calls EXCEPT ![c] =
                     Returned(call.text, call.lang, Str(translated), 77)]
      /\ translator_pool' = RemoveAt(translator_pool, OwnTaskIndex(c))
      /\ UNCHANGED <<session_language, provider_calls>>
      /\ UNCHANGED <<engine_vars, route_vars>>

\* a FutureTimeout that lets the TimeoutError out of translate_text
FutureTimeout_raising(c) ==
  LET call == calls[c]
  IN  /\ call.pc = "waiting"
      /\ OwnTask(c).state \in {"queued", "running"}
      /\ calls' = [calls EXCEPT ![c] =
                     Returned(call.text, call.lang, Raise("TimeoutError"), 79)]
      /\ translator_pool' = [translator_pool EXCEPT ![OwnTaskIndex(c)].owner = 0]
      /\ UNCHANGED <<session_language, translation_cache, provider_calls>>
      /\ UNCHANGED <<engine_vars, route_vars>>

\* a timeout that runs from the moment a worker takes the task
FutureTimeout_after_start(c) ==
  LET call == calls[c]
  IN  /\ call.pc = "waiting"
      /\ OwnTask(c).state = "running"
      /\ calls' = [calls EXCEPT ![c] =
                     Returned(call.text, call.lang, Str(call.text), 79)]
      /\ translator_pool' = [translator_pool EXCEPT ![OwnTaskIndex(c)].owner = 0]
      /\ UNCHANGED <<session_language, translation_cache, provider_calls>>
      /\ UNCHANGED <<engine_vars, route_vars>>

\* lines 75, 78-79: the task is not done after 3 seconds, future.result
\* raises and the text is returned; the task stays in the pool
FutureTimeout(c) ==
  LET call == calls[c]
  IN  /\ call.pc = "waiting"
      /\ OwnTask(c).state \in {"queued", "running"}
      /\ calls' = [calls EXCEPT ![c] =
                     Returned(call.text, call.lang, Str(call.text), 79)]
      /\ translator_pool' = [translator_pool EXCEPT ![OwnTaskIndex(c)].owner = 0]
      /\ UNCHANGED <<session_language, translation_cache, provider_calls>>
      /\ UNCHANGED <<engine_vars, route_vars>>

TranslationInit ==
  /\ RouteIdle
  /\ TranslationIdle
  /\ department = DEPARTMENTS[1]
  /\ answers = EmptyDict
  /\ question = NotCalled
  /\ symptoms = NotCalled
  /\ again = FALSE
  /\ presented = <<>>
  /\ matched = NotCalled

\* the pool and the provider counter stay within the bounds
WithinBounds(tasks, provider) ==
  /\ Len(translator_pool') <= tasks
  /\ provider_calls' <= provider

TranslationNext ==
  \/ \E c \in Callers, language \in LanguageInputs : SetLanguage(c, language)
  \/ \E c \in Callers, text \in TextInputs :
       TranslateText_Enter(c, text) /\ WithinBounds(MaxTasks, MaxProviderCalls)
  \/ \E c \in Callers : TranslateText_ReadCache(c)
  \/ WorkerStart /\ WithinBounds(MaxTasks, MaxProviderCalls)
  \/ \E i \in 1..Len(translator_pool), outcome \in {"returned", "raised"} :
       ProviderEnds(i, outcome)
  \/ \E c \in Callers : FutureResult(c)
  \/ \E c \in Callers : FutureTimeout(c)

TranslationSpec == TranslationInit /\ [][TranslationNext]_vars

----------------------------------------------------------------------------
(* Sessions that get their language from set_language and from start_chat  *)
(* while one text is translated.                                           *)

\* the text the threads translate
LanguageText == "Fever"

\* the translations of one text while sessions get their language from
\* set_language and from start_chat
LanguageNext ==
  \/ \E c \in Callers, language \in LanguageInputs : SetLanguage(c, language)
  \/ \E c \in Callers, language \in StartLanguageInputs : StartChat(c, language)
  \/ \E c \in Callers :
       TranslateText_Enter(c, LanguageText) /\ WithinBounds(MaxTasks, MaxProviderCalls)
  \/ \E c \in Callers : TranslateText_ReadCache(c)
  \/ WorkerStart /\ WithinBounds(MaxTasks, MaxProviderCalls)
  \/ \E i \in 1..Len(translator_pool), outcome \in {"returned", "raised"} :
       ProviderEnds(i, outcome)
  \/ \E c \in Callers : FutureResult(c)
  \/ \E c \in Callers : FutureTimeout(c)

LanguageSpec == TranslationInit /\ [][LanguageNext]_vars

----------------------------------------------------------------------------
(* The pool under load: threads of one language that translate one text,   *)
(* time out and call again while the provider answers late or never.       *)

\* the most tasks the pool holds at a time and the most provider
\* invocations followed, in the pool under load
PoolMaxTasks == 5

PoolMaxProviderCalls == 5

\* the text the threads translate
PoolText == "Fever"

\* every client has chosen the language "hi" (set_language, lines 982-986)
PoolInit ==
  /\ RouteIdle
  /\ session_language = [c \in Callers |-> "hi"]
  /\ translation_cache = EmptyDict
  /\ translator_pool = <<>>
  /\ calls = [c \in Callers |-> IdleCall]
  /\ provider_calls = 0
  /\ department = DEPARTMENTS[1]
  /\ answers = EmptyDict
  /\ question = NotCalled
  /\ symptoms = NotCalled
  /\ again = FALSE
  /\ presented = <<>>
  /\ matched = NotCalled

PoolNext ==
  \/ \E c \in Callers :
       TranslateText_Enter(c, PoolText) /\ WithinBounds(PoolMaxTasks, PoolMaxProviderCalls)
  \/ \E c \in Callers : TranslateText_ReadCache(c)
  \/ WorkerStart /\ WithinBounds(PoolMaxTasks, PoolMaxProviderCalls)
  \/ \E i \in 1..Len(translator_pool), outcome \in {"returned", "raised"} :
       ProviderEnds(i, outcome)
  \/ \E c \in Callers : FutureResult(c)
  \/ \E c \in Callers : FutureTimeout(c)

PoolSpec == PoolInit /\ [][PoolNext]_vars

\* future.result(timeout=3) returns or raises within 3 seconds, and a thread
\* that found the key in the cache goes on to read it; nothing is assumed
\* of the workers and of the provider
PoolLiveSpec ==
  /\ PoolSpec
  /\ \A c \in Callers : WF_vars(FutureResult(c) \/ FutureTimeout(c))
  /\ \A c \in Callers : WF_vars(TranslateText_ReadCache(c))

----------------------------------------------------------------------------
(* The cache limiter: the requests of one client of language "hi", each of *)
(* which runs clear_old_cache and then translates one text that the        *)
(* provider answers in time.                                               *)

\* line 126: the size above which clear_old_cache removes entries
cache_limit == 500

\* line 127: the number of entries it then removes
evict_count == 100

\* lines 127-129: n rounds of the loop, each of which pops the first key of
\* a cache that has one: the first n entries go, or all when there are
\* fewer
pop_oldest(cache, n) ==
  SubSeq(cache, (IF n < Len(cache) THEN n ELSE Len(cache)) + 1, Len(cache))

\* a limiter that removes from a cache that has reached the limit
clear_old_cache_at_limit(cache) ==
  IF Len(cache) >= cache_limit THEN pop_oldest(cache, evict_count) ELSE cache

\* lines 124-129: clear_old_cache, run by one thread alone
clear_old_cache(cache) ==
  IF Len(cache) > cache_limit THEN pop_oldest(cache, evict_count) ELSE cache

\* line 123: a request of client c begins; before_request runs
\* clear_old_cache ahead of the route
BeforeRequest(c) ==
  /\ Free(c)
  /\ translation_cache' = clear_old_cache(translation_cache)
  /\ calls' = [calls EXCEPT ![c] = IdleCall]
  /\ UNCHANGED <<session_language, translator_pool, provider_calls>>
  /\ UNCHANGED <<engine_vars, route_vars>>

\* the most provider invocations followed
MaxCacheCalls == 610

\* the client whose requests are followed
CacheClient == 1

\* the texts a request translates: one that no request translated before
\* and the one of the newest cache entry
CacheTexts ==
  {ToString(provider_calls + 1)}
    \cup {translation_cache[i].key[1] : i \in {Len(translation_cache)} \ {0}}

CacheNext ==
  \/ BeforeRequest(CacheClient)
  \/ \E text \in CacheTexts :
       /\ calls[CacheClient].pc = "idle"
       /\ TranslateText_Enter(CacheClient, text)
       /\ WithinBounds(1, MaxCacheCalls)
  \/ TranslateText_ReadCache(CacheClient)
  \/ WorkerStart /\ WithinBounds(1, MaxCacheCalls)
  \/ \E i \in 1..Len(translator_pool) : ProviderEnds(i, "returned")
  \/ FutureResult(CacheClient)

CacheSpec == PoolInit /\ [][CacheNext]_vars

----------------------------------------------------------------------------
(* The limiter and the helper on two request threads: one request runs     *)
(* clear_old_cache on a cache over the limit, statement by statement,      *)
(* while the other thread's requests call translate_text and set_language. *)

\* the thread whose request runs clear_old_cache
Evictor == 1

\* the thread whose requests translate and set the language
Translator == 2

\* most tasks submitted and not yet collected while the two run
MaxRaceTasks == 1

\* provider invocations followed beyond those that filled the cache
MaxRaceCalls == 1

\* the cache after cache_limit + 1 translations of distinct texts, as the
\* requests of the cache limiter's client leave it
FullCache ==
  [i \in 1..(cache_limit + 1) |->
     [key |-> CacheKey(ToString(i), "hi"),
      value |-> provider_translate(ToString(i), "hi")]]

\* the texts the translating thread asks for: the oldest and the newest of
\* the cache
RaceTexts == {ToString(1), ToString(cache_limit + 1)}

\* clear_old_cache of a thread is between two statements of round `round`
\* of its loop; size is what the dict iterator saw, key what next() gave
EvictCall(pc, round, size, key) ==
  [pc |-> pc, text |-> key[1], lang |-> key[2], result |-> NotCalled, line |-> 0,
   round |-> round, size |-> size]

\* clear_old_cache raised `error` at line `line`: the request ends there
HookFailed(error, line) ==
  [pc |-> "returned", text |-> "", lang |-> "en", result |-> Raise(error),
   line |-> line]

\* line 127: the loop goes to its next round, or is over after evict_count
NextRound(call) ==
  IF call.round = evict_count
    THEN IdleCall
    ELSE EvictCall("evict_test", call.round + 1, 0, CacheKey("", "en"))

\* line 126: if len(translation_cache) > 500
Evict_Begin(c) ==
  /\ Free(c)
  /\ calls' = [calls EXCEPT ![c] =
                 IF Len(translation_cache) > cache_limit
                   THEN EvictCall("evict_test", 1, 0, CacheKey("", "en"))
                   ELSE IdleCall]
  /\ UNCHANGED <<session_language, translation_cache, translator_pool, provider_calls>>
  /\ UNCHANGED <<engine_vars, route_vars>>

\* line 128: if translation_cache
Evict_Test(c) ==
  /\ calls[c].pc = "evict_test"
  /\ calls' = [calls EXCEPT ![c] =
                 IF translation_cache # EmptyDict
                   THEN [calls[c] EXCEPT !.pc = "evict_iter"]
                   ELSE NextRound(calls[c])]
  /\ UNCHANGED <<session_language, translation_cache, translator_pool, provider_calls>>
  /\ UNCHANGED <<engine_vars, route_vars>>

\* line 129: iter(translation_cache); the iterator notes the size of the dict
Evict_Iter(c) ==
  /\ calls[c].pc = "evict_iter"
  /\ calls' = [calls EXCEPT ![c] =
                 [calls[c] EXCEPT !.pc = "evict_next", !.size = Len(translation_cache)]]
  /\ UNCHANGED <<session_language, translation_cache, translator_pool, provider_calls>>
  /\ UNCHANGED <<engine_vars, route_vars>>

\* line 129: next(...): the first key; RuntimeError when the dict changed
\* size since iter(), StopIteration when it was and is empty
Evict_Next(c) ==
  /\ calls[c].pc = "evict_next"
  /\ calls' = [calls EXCEPT ![c] =
                 IF Len(translation_cache) # calls[c].size
                   THEN HookFailed("RuntimeError", 129)
                 ELSE IF translation_cache = EmptyDict
                   THEN HookFailed("StopIteration", 129)
                   ELSE EvictCall("evict_pop", calls[c].round, calls[c].size,
                                  translation_cache[1].key)]
  /\ UNCHANGED <<session_language, translation_cache, translator_pool, provider_calls>>
  /\ UNCHANGED <<engine_vars, route_vars>>

\* line 129: translation_cache.pop(key), a KeyError when the key is gone
Evict_Pop(c) ==
  LET key == CacheKey(calls[c].text, calls[c].lang)
  IN  /\ calls[c].pc = "evict_pop"
      /\ IF DictHas(translation_cache, key)
           THEN /\ translation_cache' =
                     SelectSeq(translation_cache, LAMBDA e : e.key # key)
                /\ calls' = [calls EXCEPT ![c] = NextRound(calls[c])]
           ELSE /\ calls' = [calls EXCEPT ![c] = HookFailed("KeyError", 129)]
                /\ UNCHANGED translation_cache
      /\ UNCHANGED <<session_language, translator_pool, provider_calls>>
      /\ UNCHANGED <<engine_vars, route_vars>>

\* the state in which the two threads start: the cache is over the limit,
\* every provider call that filled it has ended, both sessions use "hi"
RaceInit ==
  /\ RouteIdle
  /\ session_language = [c \in Callers |-> "hi"]
  /\ translation_cache = FullCache
  /\ translator_pool = <<>>
  /\ calls = [c \in Callers |-> IdleCall]
  /\ provider_calls = cache_limit + 1
  /\ department = DEPARTMENTS[1]
  /\ answers = EmptyDict
  /\ question = NotCalled
  /\ symptoms = NotCalled
  /\ again = FALSE
  /\ presented = <<>>
  /\ matched = NotCalled

\* the translating thread's requests are in their route: a request of
\* set_language starts when the cache is within the limit, so that its own
\* clear_old_cache has nothing to remove
RaceNext ==
  \/ Evict_Begin(Evictor)
  \/ Evict_Test(Evictor)
  \/ Evict_Iter(Evictor)
  \/ Evict_Next(Evictor)
  \/ Evict_Pop(Evictor)
  \/ /\ Len(translation_cache) <= cache_limit
     /\ SetLanguage(Translator, "hi")
  \/ \E text \in RaceTexts :
       /\ TranslateText_Enter(Translator, text)
       /\ WithinBounds(MaxRaceTasks, cache_limit + 1 + MaxRaceCalls)
  \/ TranslateText_ReadCache(Translator)
  \/ WorkerStart /\ WithinBounds(MaxRaceTasks, cache_limit + 1 + MaxRaceCalls)
  \/ \E i \in 1..Len(translator_pool) : ProviderEnds(i, "returned")
  \/ FutureResult(Translator)
  \/ FutureTimeout(Translator)

RaceSpec == RaceInit /\ [][RaceNext]_vars

----------------------------------------------------------------------------
(* The translation helpers as one request thread runs them when no other   *)
(* thread touches the cache meanwhile: each takes the cache it finds and    *)
(* gives back its result and the cache it leaves.                          *)

\* what the provider does for a translate_text: it returns or raises within
\* the 3 seconds of line 75, or it is still running when they are over
ProviderOutcomes == {"returned", "raised", "timeout"}

\* the provider during a request: the same outcome for every translate_text
\* of the request, or the three outcomes in turn
ProviderInputs == ProviderOutcomes \cup {"mixed"}

\* the outcome for the i-th translate_text of a run of calls
OutcomeAt(provider, i) ==
  IF provider = "mixed"
    THEN <<"returned", "raised", "timeout">>[(i % 3) + 1]
    ELSE provider

\* lines 54-79: translate_text for a session language lang.  A task that
\* times out ends later and its result is dropped.
translate_text(cache, text, lang, outcome) ==
  LET key == CacheKey(text, lang)
      translated == IF outcome = "returned" THEN provider_translate(text, lang) ELSE text
  IN  IF text = "" THEN [result |-> text, cache |-> cache]
      ELSE IF lang = "en" THEN [result |-> text, cache |-> cache]
      ELSE IF DictHas(cache, key) THEN [result |-> DictGet(cache, key), cache |-> cache]
      ELSE IF outcome = "timeout" THEN [result |-> text, cache |-> cache]
      ELSE [result |-> translated, cache |-> DictSet(cache, key, translated)]

\* translate_text for each text of a sequence, in order
RECURSIVE translate_texts(_, _, _, _, _, _)
translate_texts(cache, texts, lang, provider, i, acc) ==
  IF i > Len(texts) THEN [results |-> acc, cache |-> cache]
  ELSE LET r == translate_text(cache, texts[i], lang, OutcomeAt(provider, i))
       IN  translate_texts(r.cache, texts, lang, provider, i + 1, Append(acc, r.result))

\* the option dicts with the texts replaced, one by one
WithTexts(options, texts) ==
  [j \in 1..Len(options) |-> [options[j] EXCEPT !.text = texts[j]]]

\* a translate_question that leaves the options as they are when the batch
\* call raised
translate_question_without_fallback(cache, lang, q, provider, batch) ==
  IF ~IsQuestion(q)
    THEN [result |-> None, cache |-> cache, batch_calls |-> <<>>, text_calls |-> <<>>]
    ELSE LET first == translate_text(cache, q.question, lang, OutcomeAt(provider, 0))
             q_copy == [q EXCEPT !.question = first.result]
             texts == [j \in 1..Len(q.options) |-> q.options[j].text]
         IN  IF lang = "en"
               THEN [result |-> q_copy, cache |-> first.cache,
                     batch_calls |-> <<>>, text_calls |-> <<q.question>>]
               ELSE [result |->
                       IF batch = "returned"
                         THEN [q_copy EXCEPT !.options =
                                 WithTexts(@, [j \in 1..Len(texts) |->
                                                 provider_translate(texts[j], lang)])]
                         ELSE q_copy,
                     cache |-> first.cache,
                     batch_calls |-> <<texts>>,
                     text_calls |-> <<q.question>>]

\* lines 81-103: translate_question.  `batch` is what translate_batch does,
\* it returns the translations of all texts or it raises; it is called on
\* the request thread, without the pool and the cache.  batch_calls lists
\* the argument of every translate_batch call and text_calls the argument
\* of every translate_text call, in order.
translate_question(cache, lang, q, provider, batch) ==
  IF ~IsQuestion(q)
    THEN [result |-> None, cache |-> cache, batch_calls |-> <<>>, text_calls |-> <<>>]
    ELSE LET first == translate_text(cache, q.question, lang, OutcomeAt(provider, 0))
             q_copy == [q EXCEPT !.question = first.result]
             texts == [j \in 1..Len(q.options) |-> q.options[j].text]
             items == translate_texts(first.cache, texts, lang, provider, 1, <<>>)
         IN  IF lang = "en" \/ "options" \notin DOMAIN q
               THEN [result |-> q_copy, cache |-> first.cache,
                     batch_calls |-> <<>>, text_calls |-> <<q.question>>]
             ELSE IF batch = "returned"
               THEN [result |-> [q_copy EXCEPT !.options =
                                   WithTexts(@, [j \in 1..Len(texts) |->
                                                   provider_translate(texts[j], lang)])],
                     cache |-> first.cache,
                     batch_calls |-> <<texts>>,
                     text_calls |-> <<q.question>>]
               ELSE [result |-> [q_copy EXCEPT !.options = WithTexts(@, items.results)],
                     cache |-> items.cache,
                     batch_calls |-> <<texts>>,
                     text_calls |-> <<q.question>> \o texts]

----------------------------------------------------------------------------
(* translate_question called for questions of the flows and for no         *)
(* question, in sessions of every language.                                *)

\* the most entries the cache holds while the calls are followed
MaxQuestionCache == 8

\* the client whose requests call translate_question
QuestionClient == 1

\* questions get_next_question returns: the first question of a flow, one
\* of several choices and one further down a flow
QuestionInputs ==
  { question_dict("gastrointestinal", 1),
    question_dict("gastrointestinal", 4),
    question_dict("first_aid", 2) }

\* lines 81-103: a request thread of client c calls translate_question(q)
TranslateQuestion(c, q, provider, batch) ==
  LET lang == SessionLanguage(c)
      r == translate_question(translation_cache, lang, q, provider, batch)
  IN  /\ Free(c)
      /\ question_call' =
           [tag |-> "called", question |-> q, lang |-> lang, batch |-> batch,
            result |-> r.result, batch_calls |-> r.batch_calls,
            text_calls |-> r.text_calls]
      /\ translation_cache' = r.cache
      /\ UNCHANGED <<session_language, translator_pool, calls, provider_calls>>
      /\ UNCHANGED <<session, response, catalog_writes>>
      /\ UNCHANGED engine_vars

QuestionNext ==
  \/ \E language \in LanguageInputs : SetLanguage(QuestionClient, language)
  \/ \E q \in QuestionInputs, provider \in ProviderInputs, batch \in {"returned", "raised"} :
       /\ TranslateQuestion(QuestionClient, q, provider, batch)
       /\ Len(translation_cache') <= MaxQuestionCache
  \/ \E provider \in ProviderInputs, batch \in {"returned", "raised"} :
       TranslateQuestion(QuestionClient, None, provider, batch)

QuestionSpec == TranslationInit /\ [][QuestionNext]_vars

----------------------------------------------------------------------------
(* The routes, each handled from before_request to its response for one    *)
(* client while no other thread touches the cache.                         *)

\* the client whose requests are handled
SessionClient == 1

\* the keys of TREATMENT_TYPES that a treatments dict has, in that order
TreatmentKeys(treatments) ==
  SelectSeq([i \in 1..Len(TREATMENT_TYPES) |-> TREATMENT_TYPES[i].key],
            LAMBDA k : k \in DOMAIN treatments)

\* lines 115-119: the loop over treatments.items(), a list translated item
\* by item and any other value as one text
RECURSIVE translate_entries(_, _, _, _, _, _)
translate_entries(cache, treatments, keys, lang, provider, acc) ==
  IF keys = <<>> THEN [result |-> acc, cache |-> cache]
  ELSE LET treatment_list == treatments[Head(keys)]
           r == translate_texts(cache,
                                IF IsList(treatment_list)
                                  THEN treatment_list.items
                                  ELSE <<treatment_list.s>>,
                                lang, provider, 1, <<>>)
       IN  translate_entries(r.cache, treatments, Tail(keys), lang, provider,
             (Head(keys) :> (IF IsList(treatment_list)
                               THEN List(r.results)
                               ELSE Str(r.results[1]))) @@ acc)

\* lines 105-121: translate_treatments
translate_treatments(cache, lang, treatments, provider) ==
  IF DOMAIN treatments = {} \/ lang = "en"
    THEN [result |-> treatments, cache |-> cache]
    ELSE translate_entries(cache, treatments, TreatmentKeys(treatments), lang, provider,
                           [k \in {} |-> k])

\* lines 1122-1129: serious_conditions
serious_conditions ==
  [gastrointestinal |-> {"DIS_07", "DIS_12", "DIS_13", "DIS_15"},
   dermatology |-> {"DER_DIS_11", "DER_DIS_12", "DER_DIS_14"},
   musculoskeletal |-> {"MSK_DIS_09", "MSK_DIS_10", "MSK_DIS_14"},
   mental_health |-> {"MH_DIS_03", "MH_DIS_06", "MH_DIS_07"},
   first_aid |-> {"FA_DIS_08", "FA_DIS_09", "FA_DIS_10", "FA_DIS_11", "FA_DIS_12",
                  "FA_DIS_13"},
   general_medicine |-> {"GM_DIS_09", "GM_DIS_10"}]

\* line 1150: the message of the response without a condition
NoMatchText ==
  "No specific conditions matched your symptoms pattern. Please consult a healthcare professional for proper diagnosis and treatment."

\* line 1136: the disclaimer
DisclaimerText ==
  "This information is for educational purposes only. Always consult qualified healthcare providers for medical advice and proper diagnosis."

\* lines 1109-1116: the usage instruction of a treatment type
UsageTexts(treatment_type) ==
  CASE treatment_type = "allopathy" ->
         <<"Take as directed above. Complete the full course if antibiotics are prescribed.\n">>
    [] treatment_type = "homeopathy" ->
         <<"Take pills 15-20 minutes before or after meals. Avoid strong smells during treatment.\n">>
    [] treatment_type = "ayurveda" ->
         <<"Take with warm water unless specified. Best taken before meals.\n">>
    [] treatment_type = "home_remedy" ->
         <<"Follow the remedies consistently for best results.\n">>
    [] OTHER -> <<>>

\* a response with an error status
ErrorResponse(status, error) == [kind |-> "error", status |-> status, error |-> error]

\* lines 1078-1145: the branch of select_treatment for a top condition.  The
\* message is translated piece by piece; its text is not kept.  The request
\* ends in a KeyError at line 1090 for a treatment type that TREATMENT_TYPES
\* does not have, and in an UnboundLocalError at line 1144 in the branch of
\* line 1092, which never assigns department_serious.
diagnosis(cache, lang, dept, top_condition, treatment_type, symptom_list, provider) ==
  LET translated_treatments == translate_treatments(cache, lang, top_condition.treatments, provider)
      selected_treatment ==
        IF treatment_type \in DOMAIN translated_treatments.result
          THEN translated_treatments.result[treatment_type]
          ELSE List(<<>>)
      condition_name ==
        translate_text(translated_treatments.cache, top_condition.disease_name, lang,
                       OutcomeAt(provider, 0))
      treatment_type_name ==
        translate_text(condition_name.cache, DictGet(TREATMENT_TYPES, treatment_type), lang,
                       OutcomeAt(provider, 1))
      consult ==
        IF treatment_type = "home_remedy"
          THEN translate_text(treatment_type_name.cache, "please consult doctor", lang,
                              OutcomeAt(provider, 2))
          ELSE [result |-> "", cache |-> treatment_type_name.cache]
      urgent == treatment_type = "home_remedy" /\ selected_treatment = Str(consult.result)
      serious == top_condition.disease_id \in serious_conditions[dept]
      message_texts ==
        IF urgent
          THEN <<"Condition Identified:", "Urgent Medical Attention Required",
                 "This condition requires professional medical diagnosis and treatment. ",
                 "Please consult a healthcare provider immediately.",
                 "Disclaimer:", DisclaimerText>>
          ELSE <<"Condition Identified:", "Recommended", "Usage Instructions:">>
                 \o UsageTexts(treatment_type)
                 \o <<"Matched Symptoms:", "symptoms identified">>
                 \o (IF serious
                       THEN <<"Medical Attention Recommended:",
                              "This condition may require professional supervision.">>
                       ELSE <<>>)
                 \o <<"Disclaimer:", DisclaimerText>>
      message == translate_texts(consult.cache, message_texts, lang, provider, 1, <<>>)
  IN  IF ~DictHas(TREATMENT_TYPES, treatment_type)
        THEN [response |-> ErrorResponse(500, "KeyError"), cache |-> condition_name.cache]
      ELSE IF urgent
        THEN [response |-> ErrorResponse(500, "UnboundLocalError"), cache |-> message.cache]
        ELSE [response |->
                [kind |-> "diagnosis", status |-> 200,
                 condition |-> Str(condition_name.result),
                 treatment_type |-> treatment_type_name.result,
                 recommendations |-> selected_treatment,
                 matched_symptoms_count |-> Len(symptom_list),
                 requires_doctor |-> serious],
              cache |-> message.cache]

\* lines 979-988 after before_request: the route set_language
set_language(c, language) ==
  /\ Free(c)
  /\ IF language \in LANGUAGES
       THEN /\ session_language' = [session_language EXCEPT ![c] = language]
            /\ translation_cache' = EmptyDict
            /\ response' = [kind |-> "language", status |-> 200, success |-> TRUE]
       ELSE /\ UNCHANGED session_language
            /\ translation_cache' = clear_old_cache(translation_cache)
            /\ response' = ErrorResponse(400, "Invalid language")
  /\ UNCHANGED <<translator_pool, calls, provider_calls, session, question_call, catalog_writes>>
  /\ UNCHANGED engine_vars

\* a start_chat that takes the first configured department in place of an
\* id it does not know
start_chat_substituting(c, dept, language, provider, batch) ==
  LET known == IF dept \in DOMAIN department_names THEN dept ELSE DEPARTMENTS[1]
      first_question == get_next_question(known, EmptyDict)
      translated_question ==
        translate_question(clear_old_cache(translation_cache), language,
                           question_dict(known, FlowIndex(known, first_question)),
                           provider, batch)
      welcome_message ==
        translate_text(translated_question.cache,
                       "Great! Let's start with the " \o department_names[known]
                         \o " assessment.",
                       language, OutcomeAt(provider, 0))
  IN  /\ Free(c)
      /\ session' = [started |-> TRUE, department |-> known, answers |-> EmptyDict,
                     current_step |-> 0, treatment_type |-> None]
      /\ session_language' = [session_language EXCEPT ![c] = language]
      /\ translation_cache' = welcome_message.cache
      /\ response' = [kind |-> "started", status |-> 200, success |-> TRUE,
                      department |-> known,
                      question |-> translated_question.result,
                      message |-> welcome_message.result]
      /\ UNCHANGED <<translator_pool, calls, provider_calls, question_call, catalog_writes>>
      /\ UNCHANGED engine_vars

\* lines 990-1017 after before_request: the route start_chat
start_chat(c, dept, language, provider, batch) ==
  LET first_question == get_next_question(dept, EmptyDict)
      translated_question ==
        translate_question(clear_old_cache(translation_cache), language,
                           IF IsQuestion(first_question)
                             THEN question_dict(dept, FlowIndex(dept, first_question))
                             ELSE None,
                           provider, batch)
      welcome_message ==
        translate_text(translated_question.cache,
                       "Great! Let's start with the " \o department_names[dept]
                         \o " assessment.",
                       language, OutcomeAt(provider, 0))
  IN  /\ Free(c)
      /\ IF dept \notin DOMAIN department_names
           THEN /\ response' = ErrorResponse(400, "Invalid department")
                /\ translation_cache' = clear_old_cache(translation_cache)
                /\ UNCHANGED <<session, session_language>>
           ELSE /\ session' = [started |-> TRUE, department |-> dept, answers |-> EmptyDict,
                               current_step |-> 0, treatment_type |-> None]
                /\ session_language' = [session_language EXCEPT ![c] = language]
                /\ translation_cache' = welcome_message.cache
                /\ response' = [kind |-> "started", status |-> 200, success |-> TRUE,
                                department |-> dept,
                                question |-> translated_question.result,
                                message |-> welcome_message.result]
      /\ UNCHANGED <<translator_pool, calls, provider_calls, question_call, catalog_writes>>
      /\ UNCHANGED engine_vars

\* lines 1019-1057 after before_request: the route answer_question
answer_question(c, question_id, answer, provider, batch) ==
  LET lang == SessionLanguage(c)
      dept == session.department
      cache == clear_old_cache(translation_cache)
      stored == DictSet(session.answers, question_id, answer)
      next_question == get_next_question(dept, stored)
      translated_question ==
        translate_question(cache, lang,
                           IF IsQuestion(next_question)
                             THEN question_dict(dept, FlowIndex(dept, next_question))
                             ELSE None,
                           provider, batch)
      ask == translate_text(translated_question.cache,
                            "Which treatment type would you prefer?", lang,
                            OutcomeAt(provider, 0))
      names == translate_texts(ask.cache,
                               [i \in 1..Len(TREATMENT_TYPES) |-> TREATMENT_TYPES[i].value],
                               lang, provider, 1, <<>>)
  IN  /\ Free(c)
      /\ IF ~session.started \/ question_id = ""
           THEN /\ response' = ErrorResponse(400, "Invalid request")
                /\ translation_cache' = cache
                /\ UNCHANGED session
           ELSE /\ session' = [session EXCEPT !.answers = stored]
                /\ IF IsQuestion(translated_question.result)
                     THEN /\ response' = [kind |-> "question", status |-> 200,
                                          next_question |-> translated_question.result,
                                          completed |-> FALSE]
                          /\ translation_cache' = translated_question.cache
                     ELSE /\ response' =
                               [kind |-> "question", status |-> 200,
                                next_question |->
                                  [id |-> "treatment_preference",
                                   question |-> ask.result,
                                   type |-> "treatment_selection",
                                   options |->
                                     [i \in 1..Len(TREATMENT_TYPES) |->
                                        [value |-> TREATMENT_TYPES[i].key,
                                         text |-> names.results[i]]]],
                                completed |-> FALSE]
                          /\ translation_cache' = names.cache
      /\ UNCHANGED <<session_language, translator_pool, calls, provider_calls, question_call, catalog_writes>>
      /\ UNCHANGED engine_vars

\* a select_treatment that lets the matcher's None out as an error
select_treatment_strict(c, treatment_type, provider) ==
  LET lang == SessionLanguage(c)
      dept == session.department
      cache == clear_old_cache(translation_cache)
      symptom_list == map_answers_to_symptoms(dept, session.answers).items
      matched_conditions == find_condition_by_symptoms(departments_data, dept, symptom_list)
      found == diagnosis(cache, lang, dept, matched_conditions.items[1], treatment_type,
                         symptom_list, provider)
  IN  /\ Free(c)
      /\ IF ~session.started \/ treatment_type = ""
           THEN /\ response' = ErrorResponse(400, "Invalid request")
                /\ translation_cache' = cache
                /\ UNCHANGED session
           ELSE /\ session' = [session EXCEPT !.treatment_type = Str(treatment_type)]
                /\ IF Truthy(matched_conditions)
                     THEN /\ response' = found.response
                          /\ translation_cache' = found.cache
                     ELSE /\ response' = ErrorResponse(500, "no match")
                          /\ translation_cache' = cache
      /\ UNCHANGED <<session_language, translator_pool, calls, provider_calls, question_call, catalog_writes>>
      /\ UNCHANGED engine_vars

\* lines 1059-1154 after before_request: the route select_treatment
select_treatment(c, treatment_type, provider) ==
  LET lang == SessionLanguage(c)
      dept == session.department
      cache == clear_old_cache(translation_cache)
      symptom_list == map_answers_to_symptoms(dept, session.answers).items
      matched_conditions == find_condition_by_symptoms(departments_data, dept, symptom_list)
      found == diagnosis(cache, lang, dept, matched_conditions.items[1], treatment_type,
                         symptom_list, provider)
      message == translate_text(cache, NoMatchText, lang, OutcomeAt(provider, 0))
  IN  /\ Free(c)
      /\ IF ~session.started \/ treatment_type = ""
           THEN /\ response' = ErrorResponse(400, "Invalid request")
                /\ translation_cache' = cache
                /\ UNCHANGED session
           ELSE /\ session' = [session EXCEPT !.treatment_type = Str(treatment_type)]
                /\ IF Truthy(matched_conditions)
                     THEN /\ response' = found.response
                          /\ translation_cache' = found.cache
                     ELSE /\ response' = [kind |-> "no_match", status |-> 200,
                                          condition |-> None,
                                          message |-> message.result,
                                          requires_doctor |-> TRUE]
                          /\ translation_cache' = message.cache
      /\ UNCHANGED <<session_language, translator_pool, calls, provider_calls, question_call, catalog_writes>>
      /\ UNCHANGED engine_vars

\* lines 1156-1160 after before_request: the route restart_chat
restart_chat(c) ==
  /\ Free(c)
  /\ session' = NoSession
  /\ session_language' = [session_language EXCEPT ![c] = NoLanguage]
  /\ translation_cache' = clear_old_cache(translation_cache)
  /\ response' = [kind |-> "restarted", status |-> 200, success |-> TRUE]
  /\ UNCHANGED <<translator_pool, calls, provider_calls, question_call, catalog_writes>>
  /\ UNCHANGED engine_vars

\* the most answers of a session that are posted freely, before the client
\* follows the interview question by question
MaxSessionAnswers == 1

\* department ids posted to start_chat: the configured ones, one that is
\* not configured and the empty id
SessionDepartmentInputs == DepartmentInputs \cup {""}

\* treatment types posted to select_treatment: configured ones, one that is
\* not configured and the empty one
TreatmentTypeInputs == {"allopathy", "homeopathy", "home_remedy", "unani", ""}

\* the provider while the routes are followed: no translate_text gets its
\* translation within the 3 seconds
SessionProviders == {"timeout"}

\* what translate_batch does in a request of a session of language lang; a
\* session of language "en" does not call it
BatchInputs(lang) == IF lang = "en" THEN {"returned"} ELSE {"returned", "raised"}

\* the question the client was asked last
Pending == get_next_question(session.department, session.answers)

\* question ids posted to answer_question: the one asked, one of no flow and
\* the empty id
QuestionIdInputs ==
  {ForeignKey, ""} \cup (IF IsQuestion(Pending) THEN {Pending.id} ELSE {})

\* answers posted to answer_question: the first option or options of the
\* question asked, and "none"
SessionAnswerInputs ==
  {Str("none")} \cup (IF IsQuestion(Pending) THEN {ScriptAnswer(Pending)} ELSE {})

SessionNext ==
  \/ \E language \in LanguageInputs : set_language(SessionClient, language)
  \/ \E dept \in SessionDepartmentInputs, language \in StartLanguageInputs,
        provider \in SessionProviders :
     \E batch \in BatchInputs(language) :
       start_chat(SessionClient, dept, language, provider, batch)
  \/ \E question_id \in QuestionIdInputs, answer \in SessionAnswerInputs,
        provider \in SessionProviders, batch \in BatchInputs(SessionLanguage(SessionClient)) :
       /\ answer_question(SessionClient, question_id, answer, provider, batch)
       /\ \/ Len(session'.answers) <= MaxSessionAnswers
          \/ /\ IsQuestion(Pending)
             /\ question_id = Pending.id
             /\ answer = ScriptAnswer(Pending)
  \/ \E treatment_type \in TreatmentTypeInputs, provider \in SessionProviders :
       select_treatment(SessionClient, treatment_type, provider)
  \/ restart_chat(SessionClient)

SessionSpec == TranslationInit /\ [][SessionNext]_vars

----------------------------------------------------------------------------
(* The catalog under translation: translate_question and                   *)
(* translate_treatments called on objects of the loaded catalog, with the  *)
(* assignments they make followed to the object they reach.                *)

\* line 704: get_next_question returns the dict of the flow list itself;
\* that dict and its option dicts are objects of the catalog
flow_question_object == [dict |-> "catalog", options |-> "catalog"]

\* a copy that makes a new dict around the option dicts of the original
shallow_copy(object) == [dict |-> "request", options |-> object.options]

\* line 86: json.loads(json.dumps(question)).  The text in between holds no
\* reference, so the dict and every option dict parsed from it are objects
\* of the request; their keys and strings are those of the original
json_copy(object) == [dict |-> "request", options |-> "request"]

\* line 963: the matcher puts the treatments dict of the catalog itself
\* into the condition it returns
treatments_object == "catalog"

\* line 114: translated_treatments = {}
translated_treatments_object == "request"

\* a text of the catalog as a request reads it: what was assigned to it
\* last, or what was loaded
stored_text(key, loaded) ==
  IF DictHas(catalog_writes, key) THEN DictGet(catalog_writes, key) ELSE loaded

\* the i-th question of a flow as get_next_question returns it now
stored_question(dept, i) ==
  LET q == question_dict(dept, i)
  IN  [id |-> q.id,
       question |-> stored_text(<<dept, q.id, "question">>, Str(q.question)).s,
       type |-> q.type,
       options |->
         [j \in 1..Len(q.options) |->
            [value |-> q.options[j].value,
             text |-> stored_text(<<dept, q.id, q.options[j].value>>,
                                  Str(q.options[j].text)).s]]]

\* the treatments of a condition as the matcher returns them now
stored_treatments(dept, id) ==
  LET loaded == departments_data[dept].treatments[id]
  IN  [k \in DOMAIN loaded |-> stored_text(<<dept, id, k>>, loaded[k])]

\* lines 87, 97 and 101: q_copy["question"] = ... and, in a session of
\* another language than "en", opt["text"] = ... for every option of
\* q_copy; an assignment counts when its object is one of the catalog
question_assignments(dept, q_copy, result, lang) ==
  (IF q_copy.dict = "catalog"
     THEN << [key |-> <<dept, result.id, "question">>, value |-> Str(result.question)] >>
     ELSE <<>>)
  \o (IF lang # "en" /\ q_copy.options = "catalog"
        THEN [j \in 1..Len(result.options) |->
                [key |-> <<dept, result.id, result.options[j].value>>,
                 value |-> Str(result.options[j].text)]]
        ELSE <<>>)

\* lines 117 and 119: translated_treatments[treatment_type] = ..., reached
\* for a dict that is not empty in a session of another language than "en"
treatments_assignments(dept, id, target, treatments, result, lang) ==
  IF DOMAIN treatments = {} \/ lang = "en" \/ target # "catalog"
    THEN <<>>
    ELSE LET keys == TreatmentKeys(treatments)
         IN  [j \in 1..Len(keys) |->
                [key |-> <<dept, id, keys[j]>>, value |-> result[keys[j]]]]

\* the assignments carried out in order
RECURSIVE assign_all(_, _)
assign_all(writes, assignments) ==
  IF assignments = <<>> THEN writes
  ELSE assign_all(DictSet(writes, Head(assignments).key, Head(assignments).value),
                  Tail(assignments))

\* the client whose requests translate
CatalogClient == 1

\* the most entries the cache holds while the calls are followed
MaxCatalogCache == 7

\* questions of the flows that get translated: department and position
CatalogQuestions == {<<"gastrointestinal", 1>>, <<"first_aid", 2>>}

\* conditions whose treatments get translated: department and disease id
CatalogTreatments ==
  {<<"gastrointestinal", "DIS_01">>, <<"gastrointestinal", "DIS_02">>}

\* lines 1008 and 1039: translate_question(question) for a question that
\* get_next_question returned
TranslateFlowQuestion(c, dept, i, provider, batch) ==
  LET lang == SessionLanguage(c)
      q == stored_question(dept, i)
      q_copy == json_copy(flow_question_object)
      r == translate_question(translation_cache, lang, q, provider, batch)
  IN  /\ Free(c)
      /\ question_call' =
           [tag |-> "called", question |-> q, lang |-> lang, batch |-> batch,
            result |-> r.result, batch_calls |-> r.batch_calls,
            text_calls |-> r.text_calls, department |-> dept, index |-> i]
      /\ translation_cache' = r.cache
      /\ catalog_writes' =
           assign_all(catalog_writes, question_assignments(dept, q_copy, r.result, lang))
      /\ UNCHANGED <<session_language, translator_pool, calls, provider_calls>>
      /\ UNCHANGED <<session, response>>
      /\ UNCHANGED engine_vars

\* line 1083: translate_treatments(treatments) for the treatments of a
\* matched condition
TranslateStoredTreatments(c, dept, id, provider) ==
  LET lang == SessionLanguage(c)
      treatments == stored_treatments(dept, id)
      r == translate_treatments(translation_cache, lang, treatments, provider)
  IN  /\ Free(c)
      /\ question_call' =
           [tag |-> "treatments", department |-> dept, disease |-> id,
            lang |-> lang, result |-> r.result]
      /\ translation_cache' = r.cache
      /\ catalog_writes' =
           assign_all(catalog_writes,
                      treatments_assignments(dept, id, translated_treatments_object,
                                             treatments, r.result, lang))
      /\ UNCHANGED <<session_language, translator_pool, calls, provider_calls>>
      /\ UNCHANGED <<session, response>>
      /\ UNCHANGED engine_vars

CatalogNext ==
  \/ \E language \in LanguageInputs : SetLanguage(CatalogClient, language)
  \/ \E input \in CatalogQuestions, provider \in ProviderInputs,
        batch \in {"returned", "raised"} :
       /\ TranslateFlowQuestion(CatalogClient, input[1], input[2], provider, batch)
       /\ Len(translation_cache') <= MaxCatalogCache
  \/ \E input \in CatalogTreatments, provider \in ProviderInputs :
       /\ TranslateStoredTreatments(CatalogClient, input[1], input[2], provider)
       /\ Len(translation_cache') <= MaxCatalogCache

CatalogSpec == TranslationInit /\ [][CatalogNext]_vars

----------------------------------------------------------------------------
(* Properties of the flow controller *)

KnownFlow == department \in DOMAIN conversation_flows

\* the recorded answer under key k is exactly the Python str v
AnsweredWith(k, v) ==
  \E i \in 1..Len(answers) : answers[i].key = k /\ answers[i].value = Str(v)

\* q is eligible for the current answers: unanswered, and every pair of its
\* depends_on (if it has one) is matched by a recorded answer
Eligible(q) ==
  /\ \A i \in 1..Len(answers) : answers[i].key # q.id
  /\ "depends_on" \in DOMAIN q =>
       \A j \in 1..Len(q.depends_on) :
         AnsweredWith(q.depends_on[j][1], q.depends_on[j][2].s)

NoDuplicates(seq) == \A i, j \in 1..Len(seq) : i # j => seq[i] # seq[j]

\* C1: get_next_question never returns a question whose id is already a key
\* of the answers, and in a run where each returned question is answered
\* before asking again no question id is presented twice.
C1_NoRepeat ==
  /\ IsQuestion(question) => question.id \notin {answers[i].key : i \in 1..Len(answers)}
  /\ NoDuplicates(presented)

\* reached: an interview that has presented three questions, two of them
\* answered, and holds the third unanswered
C1_Witness ==
  /\ Len(presented) >= 3
  /\ IsQuestion(question)
  /\ question.id = presented[Len(presented)]
  /\ \A i \in 1..(Len(presented) - 1) : DictHas(answers, presented[i])

\* C2: a returned question that carries depends_on has every pair of the
\* dependency recorded in the answers with exactly the required value.
C2_DependencyGating ==
  (IsQuestion(question) /\ "depends_on" \in DOMAIN question) =>
    \A j \in 1..Len(question.depends_on) :
      AnsweredWith(question.depends_on[j][1], question.depends_on[j][2].s)

\* reached: the dependent question is returned (its dependency is met), and
C2_Witness ==
  /\ IsQuestion(question)
  /\ question.id = "upper_abdomen_timing"
  /\ AnsweredWith("symptom_location", "upper_abdomen")

\* reached as well: the dependency is answered differently and the scan
\* passes over the dependent question to the one after it
C2_GatedOut ==
  /\ department = "gastrointestinal"
  /\ DictHas(answers, "symptom_location")
  /\ ~AnsweredWith("symptom_location", "upper_abdomen")
  /\ ~DictHas(answers, "upper_abdomen_timing")
  /\ IsQuestion(question)
  /\ question.id = "pain_character"

\* C3: for a known department the result is the first question of the flow
\* that is eligible, and None exactly when no question of the flow is.
C3_FirstEligible ==
  (question # NotCalled /\ KnownFlow) =>
    LET flow == conversation_flows[department]
        E == {i \in 1..Len(flow) : Eligible(flow[i])}
    IN  IF E = {}
          THEN question = None
          ELSE question = flow[CHOOSE i \in E : \A j \in E : i <= j]

\* reached: None for a known department although a question of the flow is
\* unanswered (its dependency is unmet)
C3_Witness ==
  /\ KnownFlow
  /\ question = None
  /\ \E i \in 1..Len(conversation_flows[department]) :
       ~DictHas(answers, conversation_flows[department][i].id)

\* C4: once get_next_question has returned a result for the answers, every
\* further call made while the answers are unchanged returns that same
\* result, whatever else was called in between (only recording an answer
\* discards the result).
C4_Idempotent ==
  [][(question # NotCalled /\ question' # NotCalled) => question' = question]_vars

\* reached: a repeated call for unchanged answers, with the normaliser and
\* the matcher called as well, holding a question
C4_Witness ==
  /\ again
  /\ symptoms # NotCalled
  /\ matched # NotCalled
  /\ IsQuestion(question)

\* C5 as stated: for a department without a flow the outcome differs from
\* None, the outcome for "no more questions".
C5_UnknownDomainSignalled ==
  (question # NotCalled /\ ~KnownFlow) => question # None

\* C5 as the code has it: for a department without a flow get_next_question
\* returns None, the value it also returns when no question is eligible.
C5_UnknownDomainIsNone ==
  (question # NotCalled /\ ~KnownFlow) => question = None

\* reached: the call made for the unknown department, with answers recorded
C5_Witness ==
  /\ ~KnownFlow
  /\ question = None
  /\ Len(answers) > 0

\* a step of one of the three engine calls: it leaves a result standing
\* (recording an answer discards all three)
EngineCallStep ==
  question' # NotCalled \/ symptoms' # NotCalled \/ matched' # NotCalled

\* C6: get_next_question, map_answers_to_symptoms and
\* find_condition_by_symptoms leave the answers as they were: same keys,
\* same values, same order.
C6_AnswersUnchanged ==
  [][EngineCallStep => answers' = answers]_vars

\* reached: all three called for answers that hold a "none" and a list, the
\* matcher last and with a condition matched
C6_Witness ==
  /\ question # NotCalled
  /\ symptoms # NotCalled
  /\ matched.tag = "list"
  /\ Len(matched.items) > 0
  /\ \E i \in 1..Len(answers) : answers[i].value = Str("none")
  /\ \E i \in 1..Len(answers) : answers[i].value.tag = "list"

----------------------------------------------------------------------------
(* Properties of the symptom normaliser *)

KnownMap == department \in DOMAIN symptom_mapping

\* the tokens occurring in the answer values, a scalar counting as one
AnswerTokens ==
  UNION { IF answers[i].value.tag = "list"
            THEN {answers[i].value.items[j] : j \in 1..Len(answers[i].value.items)}
            ELSE {answers[i].value.s} : i \in 1..Len(answers) }

ItemSet(v) == {v.items[i] : i \in 1..Len(v.items)}

\* C7: for a known department the result holds exactly the ids that the
\* table gives for the non-empty, non-"none" tokens of the answers that have
\* an entry; other tokens add nothing and raise nothing.
C7_ExactSymptomSet ==
  (symptoms # NotCalled /\ KnownMap) =>
    /\ symptoms.tag = "list"
    /\ ItemSet(symptoms) =
         { symptom_mapping[department][t] :
             t \in {u \in AnswerTokens :
                      u # "" /\ u # "none" /\ u \in DOMAIN symptom_mapping[department]} }

\* reached: answers with a mapped token, an unmapped one, "none" and the
\* empty token, normalised to a non-empty result
C7_Witness ==
  /\ KnownMap
  /\ symptoms # NotCalled
  /\ {"", "none", UnmappedToken} \subseteq AnswerTokens
  /\ \E t \in AnswerTokens : t \in DOMAIN symptom_mapping[department]
  /\ Len(symptoms.items) > 0

\* C8: the result holds each canonical symptom id at most once.
C8_NoDuplicateIds ==
  symptoms # NotCalled => NoDuplicates(symptoms.items)

\* reached: two different answered questions whose tokens map to the same
\* id, which the result holds
C8_Witness ==
  /\ department = "gastrointestinal"
  /\ AnsweredWith("symptom_location", "upper_abdomen")
  /\ AnsweredWith("upper_abdomen_timing", "after_meals")
  /\ symptoms # NotCalled
  /\ "SYP_001" \in ItemSet(symptoms)

\* the answers with every "none" removed: scalar "none" entries dropped,
\* "none" members taken out of the lists
WithoutNone(ans) ==
  LET keep == SelectSeq(ans, LAMBDA e : e.value # Str("none"))
  IN  [i \in 1..Len(keep) |->
         IF keep[i].value.tag = "list"
           THEN [key |-> keep[i].key,
                 value |-> List(SelectSeq(keep[i].value.items, LAMBDA x : x # "none"))]
           ELSE keep[i]]

\* C9: "none" answers contribute nothing: the result is the result for the
\* answers with the "none" values removed, and "none" is not in it.
C9_NoneIsNoSymptom ==
  symptoms # NotCalled =>
    /\ symptoms = map_answers_to_symptoms(department, WithoutNone(answers))
    /\ "none" \notin ItemSet(symptoms)

\* reached: a scalar "none" and a list holding "none" twice among mapped
\* tokens, normalised together
C9_Witness ==
  /\ KnownMap
  /\ symptoms # NotCalled
  /\ \E i \in 1..Len(answers) : answers[i].value = Str("none")
  /\ \E i \in 1..Len(answers) :
       /\ answers[i].value.tag = "list"
       /\ Cardinality({j \in 1..Len(answers[i].value.items) :
                         answers[i].value.items[j] = "none"}) >= 2
  /\ Len(symptoms.items) > 0

\* C10 as stated: for a department without a symptom table the call signals
\* an error instead of returning a result.
C10_UnknownDomainSignalled ==
  (symptoms # NotCalled /\ ~KnownMap) => symptoms.tag = "raise"

\* C10 as the code has it: for a department without a symptom table the
\* call returns the empty list, whatever the answers hold.
C10_UnknownDomainIsEmpty ==
  (symptoms # NotCalled /\ ~KnownMap) => symptoms = List(<<>>)

\* reached: the call made for the unknown department with answers recorded
C10_Witness ==
  /\ ~KnownMap
  /\ symptoms = List(<<>>)
  /\ Len(answers) > 0

----------------------------------------------------------------------------
(* Properties of the condition matcher *)

\* the department's catalog has a condition list and a treatment table
FullCatalog ==
  /\ department \in DOMAIN departments_data
  /\ {"diseases", "treatments"} \subseteq DOMAIN departments_data[department]

\* the conditions of the department's catalog, in catalog order
Diseases == departments_data[department].diseases

\* the required symptoms of a condition, as listed and as a set
RequiredList(d) == IF "symptoms" \in DOMAIN d THEN d.symptoms ELSE <<>>

Required(d) == {RequiredList(d)[i] : i \in 1..Len(RequiredList(d))}

\* the input symptoms that a condition requires
MatchedOf(d) == ItemSet(symptoms) \cap Required(d)

MatchCountOf(d) == Cardinality(MatchedOf(d))

TotalOf(d) == Len(RequiredList(d))

\* the matcher was called and returned a list
Ranked == matched.tag = "list"

\* a condition id appears in the returned list
InResult(id) == \E i \in 1..Len(matched.items) : matched.items[i].disease_id = id

\* C11: a condition of the department's catalog is in the list returned by
\* find_condition_by_symptoms if and only if matchCount >= 2, or
\* matchCount >= 1 and matchCount / totalSymptoms * 100 >= 30.
C11_AdmissionPolicy ==
  (Ranked /\ FullCatalog) =>
    \A k \in 1..Len(Diseases) :
      LET d == Diseases[k]
      IN  InResult(d.id) <=>
            \/ MatchCountOf(d) >= 2
            \/ /\ MatchCountOf(d) >= 1
               /\ MatchCountOf(d) * 100 >= 30 * TotalOf(d)

\* one call in which a condition with 1 of 5 required symptoms is left out, a
\* condition with 1 of 3 is returned, and a condition with two matches that
\* are less than 30 percent of its requirement is returned
C11_Witness ==
  /\ Ranked /\ FullCatalog
  /\ \E a, b, c \in 1..Len(Diseases) :
       /\ TotalOf(Diseases[a]) = 5 /\ MatchCountOf(Diseases[a]) = 1
       /\ ~InResult(Diseases[a].id)
       /\ TotalOf(Diseases[b]) = 3 /\ MatchCountOf(Diseases[b]) = 1
       /\ InResult(Diseases[b].id)
       /\ MatchCountOf(Diseases[c]) >= 2
       /\ MatchCountOf(Diseases[c]) * 100 < 30 * TotalOf(Diseases[c])
       /\ InResult(Diseases[c].id)

\* the catalog condition a returned entry was made from
DiseaseOf(r) == CHOOSE d \in {Diseases[k] : k \in 1..Len(Diseases)} : d.id = r.disease_id

\* C12: every returned entry carries the intersection of the input symptoms
\* with the condition's required symptoms, its size as matchCount, the
\* number of required symptoms as totalSymptoms and
\* matchCount / totalSymptoms * 100 as matchPercentage; a condition with no
\* required symptom is scored 0 percent and the call returns.
C12_Scoring ==
  (matched # NotCalled /\ FullCatalog) =>
    /\ Ranked
    /\ \A i \in 1..Len(matched.items) :
         LET r == matched.items[i]
             d == DiseaseOf(r)
         IN  /\ r.matching_symptoms = MatchedOf(d)
             /\ r.match_score = Cardinality(MatchedOf(d))
             /\ r.total_disease_symptoms = TotalOf(d)
             /\ r.total_disease_symptoms > 0
             /\ r.match_percentage.num * r.total_disease_symptoms
                  = r.match_score * 100 * r.match_percentage.den
    /\ \A k \in 1..Len(Diseases) :
         TotalOf(Diseases[k]) = 0 =>
           LET p == condition_info(departments_data[department], Diseases[k],
                                   symptoms.items).match_percentage
           IN  p.num = 0 /\ p.den > 0

\* a call with a repeated symptom id that returned a condition requiring that
\* symptom, over a catalog that has a condition with no required symptom
C12_Witness ==
  /\ Ranked /\ FullCatalog
  /\ \E k \in 1..Len(Diseases) : TotalOf(Diseases[k]) = 0
  /\ \E i, j \in 1..Len(symptoms.items) :
       /\ i # j
       /\ symptoms.items[i] = symptoms.items[j]
       /\ \E n \in 1..Len(matched.items) :
            symptoms.items[i] \in matched.items[n].matching_symptoms

\* the place of a returned entry's condition in the catalog
CatalogIndex(r) == CHOOSE k \in 1..Len(Diseases) : Diseases[k].id = r.disease_id

\* two returned entries have the same matchPercentage
SamePercentage(a, b) ==
  a.match_percentage.num * b.match_percentage.den
    = b.match_percentage.num * a.match_percentage.den

\* C13: the list returned by find_condition_by_symptoms is in descending
\* order of (matchCount, matchPercentage): of two adjacent entries the
\* earlier has the larger matchCount, or the same matchCount and a
\* matchPercentage that is not smaller.
C13_RankedDescending ==
  Ranked =>
    \A i \in 1..(Len(matched.items) - 1) :
      LET a == matched.items[i]
          b == matched.items[i + 1]
      IN  \/ a.match_score > b.match_score
          \/ /\ a.match_score = b.match_score
             /\ a.match_percentage.num * b.match_percentage.den
                  >= b.match_percentage.num * a.match_percentage.den

\* a returned list in which the percentage decides between two adjacent
\* entries of equal matchCount, against their catalog order
C13_Witness ==
  /\ Ranked /\ FullCatalog
  /\ \E i \in 1..(Len(matched.items) - 1) :
       LET a == matched.items[i]
           b == matched.items[i + 1]
       IN  /\ a.match_score = b.match_score
           /\ ~SamePercentage(a, b)
           /\ CatalogIndex(a) > CatalogIndex(b)

\* C14: two returned conditions with the same matchCount and the same
\* matchPercentage are in the order they have in the department's catalog.
C14_RankingStable ==
  (Ranked /\ FullCatalog) =>
    \A i, j \in 1..Len(matched.items) :
      LET a == matched.items[i]
          b == matched.items[j]
      IN  (i < j /\ a.match_score = b.match_score /\ SamePercentage(a, b))
            => CatalogIndex(a) < CatalogIndex(b)

\* a returned list with two entries tied on both keys, behind an entry that
\* the sort moved in front of them
C14_Witness ==
  /\ Ranked /\ FullCatalog
  /\ \E i, j \in 1..Len(matched.items) :
       /\ i < j
       /\ matched.items[i].match_score = matched.items[j].match_score
       /\ SamePercentage(matched.items[i], matched.items[j])
  /\ \E i \in 1..(Len(matched.items) - 1) :
       CatalogIndex(matched.items[i]) > CatalogIndex(matched.items[i + 1])

\* the department id is not in the catalog
UnknownToCatalog == department \notin DOMAIN departments_data

\* C15 as stated: find_condition_by_symptoms called with a department id
\* that is not in the catalog returns an empty list.
C15_UnknownDomainIsEmpty ==
  (UnknownToCatalog /\ matched # NotCalled) => matched = List(<<>>)

\* C15: find_condition_by_symptoms called with a department id that is not
\* in the catalog returns None, and raises nothing.
C15_UnknownDomainIsNone ==
  (UnknownToCatalog /\ matched # NotCalled) => matched = None

\* the matcher was called for an unknown department with symptoms
C15_Witness ==
  /\ UnknownToCatalog
  /\ matched # NotCalled
  /\ symptoms.items # <<>>

\* the department is configured and its file was not loaded, or its
\* document lacks the condition list or the treatment table
LacksTable ==
  /\ department \in DOMAIN data_files
  /\ \/ data_files[department].status # "ok"
     \/ ~({"diseases", "treatments"} \subseteq DOMAIN data_files[department].json)

\* C16: for a configured department whose catalog lacks the condition list
\* or the treatment table, a department whose file failed to load
\* included, find_condition_by_symptoms returns an empty list whatever the
\* symptoms are.
C16_IncompleteCatalogIsEmpty ==
  (LacksTable /\ matched # NotCalled) => matched = List(<<>>)

\* the matcher was called for a department that has conditions and no
\* treatment table, with a symptom one of its conditions requires
C16_Witness ==
  /\ LacksTable
  /\ matched # NotCalled
  /\ data_files[department].status = "ok"
  /\ "diseases" \in DOMAIN data_files[department].json
  /\ \E k \in 1..Len(data_files[department].json.diseases) :
       ItemSet(symptoms) \cap Required(data_files[department].json.diseases[k]) # {}

\* the matcher was called for a department whose file is missing or unreadable
C16_FailedLoad ==
  /\ LacksTable
  /\ matched # NotCalled
  /\ data_files[department].status # "ok"
  /\ symptoms.items # <<>>

----------------------------------------------------------------------------
(* Properties of the translation helper *)

\* thread c enters translate_text in this step
Enters(c) == Free(c) /\ calls'[c] # calls[c]

\* thread c's translate_text returns (or raises) in this step
Returns(c) == ~Free(c) /\ calls'[c].pc = "returned"

\* the key of thread c's call
KeyOf(call) == CacheKey(call.text, call.lang)

\* C17: translate_text with the base language "en" as target returns the
\* text it was given, calls no provider and adds no cache entry.
C17_BaseLanguageFastPath ==
  [][\A c \in Callers :
       (Enters(c) /\ SessionLanguage(c) = "en") =>
         /\ calls'[c].pc = "returned"
         /\ calls'[c].result = Str(calls'[c].text)
         /\ translation_cache' = translation_cache
         /\ translator_pool' = translator_pool
         /\ provider_calls' = provider_calls]_vars

\* a call for the base language returned its text while the cache holds a
\* translation of the same text for another language
C17_Witness ==
  \E c \in Callers :
    /\ calls[c].pc = "returned"
    /\ calls[c].lang = "en"
    /\ calls[c].text # ""
    /\ calls[c].result = Str(calls[c].text)
    /\ \E i \in 1..Len(translation_cache) :
         /\ translation_cache[i].key[1] = calls[c].text
         /\ translation_cache[i].value # calls[c].text

\* C18: a translate_text call that got a translation from the provider
\* stores it under (text, lang); a later call for a key that is in the
\* cache submits nothing to the pool, and when the entry is still there
\* at the read it returns the stored value; no step of such a call invokes
\* the provider.
C18_CachedTranslation ==
  [][\A c \in Callers :
       /\ (Returns(c) /\ calls[c].pc = "waiting" /\ OwnTask(c).state = "returned") =>
            /\ calls'[c].result = Str(provider_translate(calls[c].text, calls[c].lang))
            /\ DictHas(translation_cache', KeyOf(calls[c]))
            /\ Str(DictGet(translation_cache', KeyOf(calls[c]))) = calls'[c].result
       /\ (Enters(c) /\ DictHas(translation_cache, KeyOf(calls'[c]))
             /\ calls'[c].text # "" /\ calls'[c].lang # "en") =>
            /\ calls'[c].pc = "cache_hit"
            /\ translator_pool' = translator_pool
            /\ provider_calls' = provider_calls
       /\ (Returns(c) /\ calls[c].pc = "cache_hit"
             /\ DictHas(translation_cache, KeyOf(calls[c]))) =>
            /\ calls'[c].result = Str(DictGet(translation_cache, KeyOf(calls[c])))
            /\ translator_pool' = translator_pool
            /\ provider_calls' = provider_calls]_vars

\* a call returned a translation from the cache, and the provider was
\* invoked once in all
C18_Witness ==
  \E c \in Callers :
    /\ calls[c].pc = "returned"
    /\ calls[c].line = 64
    /\ calls[c].result = Str(provider_translate(calls[c].text, calls[c].lang))
    /\ provider_calls = 1

\* C19: a translate_text call whose provider call timed out or raised
\* returns the text it was given, and raises nothing.
C19_FailOpen ==
  [][\A c \in Callers :
       (Returns(c) /\ calls[c].pc = "waiting" /\ OwnTask(c).state # "returned") =>
         calls'[c].result = Str(calls[c].text)]_vars

\* one call ended by the timeout and one by a provider that raised, both
\* with the text they were given
C19_Witness ==
  \E c, d \in Callers :
    /\ calls[c].pc = "returned" /\ calls[c].line = 79
    /\ calls[c].result = Str(calls[c].text)
    /\ calls[d].pc = "returned" /\ calls[d].line = 77
    /\ calls[d].result = Str(calls[d].text)

\* C20 as stated: a translate_text call that falls back to the text it was
\* given, after a timeout or after a provider failure, writes nothing to the
\* cache.
C20_FallbackLeavesNoEntry ==
  [][\A c \in Callers :
       (Returns(c) /\ calls[c].pc = "waiting" /\ OwnTask(c).state # "returned") =>
         translation_cache' = translation_cache]_vars

\* after a provider failure, a second call for the same key returned the
\* untranslated text from the cache
C20_PoisonedHit ==
  \E c \in Callers :
    /\ calls[c].pc = "returned"
    /\ calls[c].line = 64
    /\ calls[c].result = Str(calls[c].text)

\* the tasks of the pool in a state
TasksIn(state) ==
  {i \in 1..Len(translator_pool) : translator_pool[i].state = state}

\* C24: at most max_workers (4) provider calls dispatched by translate_text
\* run at a time, however many tasks were submitted; the others are queued.
C24_PoolBound == Cardinality(TasksIn("running")) <= max_workers

\* all workers are busy and a submitted task waits in the queue
C24_Witness ==
  /\ Cardinality(TasksIn("running")) = max_workers
  /\ TasksIn("queued") # {}

\* C25: every translate_text call returns a string in the end, also when
\* the provider never answers and every worker is held by a provider call.
C25_EventuallyReturns ==
  \A c \in Callers :
    (~Free(c)) ~> (calls[c].pc = "returned" /\ calls[c].result.tag = "str")

\* a call returned its text by the timeout while every worker was held and
\* its own task had not been started
C25_Witness ==
  \E c \in Callers :
    /\ calls[c].pc = "returned"
    /\ calls[c].line = 79
    /\ calls[c].result = Str(calls[c].text)
    /\ Cardinality(TasksIn("running")) = max_workers
    /\ \E i \in TasksIn("queued") : translator_pool[i].owner = 0

\* the provider call of a task that nobody waits for ends in this step
LateResult ==
  \E i \in 1..Len(translator_pool) :
    /\ translator_pool[i].owner = 0
    /\ translator_pool[i].state = "running"
    /\ translator_pool' = RemoveAt(translator_pool, i)

\* C30: when the provider call of a timed-out translate_text ends later,
\* its result is written to no cache entry and returned to no caller.
C30_LateResultDiscarded ==
  [][LateResult => (translation_cache' = translation_cache /\ calls' = calls)]_vars

\* a call timed out, its provider call was made and has ended since, and
\* the cache is empty
C30_Witness ==
  /\ provider_calls = 1
  /\ translator_pool = <<>>
  /\ translation_cache = EmptyDict
  /\ \E c \in Callers :
       /\ calls[c].pc = "returned"
       /\ calls[c].line = 79
       /\ \A d \in Callers \ {c} : calls[d].pc = "idle"

C21_EvictionBound == Len(translation_cache) <= cache_limit

\* a request that began with a full cache, which clear_old_cache left as it
\* was, has stored one more translation
C21_OverCapacity ==
  /\ Len(translation_cache) = cache_limit + 1
  /\ calls[CacheClient].pc = "returned"
  /\ calls[CacheClient].line = 77
  /\ KeyOf(calls[CacheClient]) = translation_cache[Len(translation_cache)].key

OptionTexts(q) == [j \in 1..Len(q.options) |-> q.options[j].text]

\* C23: for a question and a session language other than "en",
\* translate_question calls translate_batch once, with the texts of all
\* options.  When the batch call returned, the options carry its
\* translations and translate_text was called for the question text only;
\* when it raised, translate_text was called for every option text, in
\* order, and each option carries what that call returned.  Either way the
\* result has every option of the question, in order and under its value.
C23_BatchThenPerItem ==
  (/\ question_call.tag = "called"
   /\ IsQuestion(question_call.question)
   /\ question_call.lang # "en")
    => LET q == question_call.question
           lang == question_call.lang
           result == question_call.result
       IN  /\ question_call.batch_calls = <<OptionTexts(q)>>
           /\ question_call.batch = "returned" =>
                /\ question_call.text_calls = <<q.question>>
                /\ \A j \in 1..Len(q.options) :
                     result.options[j].text = provider_translate(q.options[j].text, lang)
           /\ question_call.batch = "raised" =>
                /\ question_call.text_calls = <<q.question>> \o OptionTexts(q)
                /\ \A j \in 1..Len(q.options) :
                     result.options[j].text
                       \in {q.options[j].text, provider_translate(q.options[j].text, lang)}
           /\ IsQuestion(result)
           /\ Len(result.options) = Len(q.options)
           /\ \A j \in 1..Len(q.options) : result.options[j].value = q.options[j].value

\* the batch call raised for a question of six options and translate_text
\* gave a translation for one option and the original text for another
C23_Witness ==
  /\ question_call.tag = "called"
  /\ IsQuestion(question_call.question)
  /\ question_call.lang = "hi"
  /\ question_call.batch = "raised"
  /\ Len(question_call.result.options) = 6
  /\ Len(question_call.text_calls) = 7
  /\ \E i, j \in 1..6 :
       /\ question_call.result.options[i].text
            = provider_translate(question_call.question.options[i].text, "hi")
       /\ question_call.result.options[j].text = question_call.question.options[j].text

\* C27: start_chat with a department id that is not configured answers
\* 400 "Invalid department" and leaves the session as it was: its
\* department, its answers, its treatment type and its language.
C27_UnknownDepartmentRejected ==
  [][\A dept \in SessionDepartmentInputs \ {DEPARTMENTS[i] : i \in 1..Len(DEPARTMENTS)},
        language \in StartLanguageInputs, provider \in SessionProviders :
     \A batch \in BatchInputs(language) :
       start_chat(SessionClient, dept, language, provider, batch)
         => /\ response' = ErrorResponse(400, "Invalid department")
            /\ session' = session
            /\ session_language' = session_language]_vars

\* a session of language "hi" with a department and an answer has just had
\* a start_chat rejected
C27_Witness ==
  /\ response = ErrorResponse(400, "Invalid department")
  /\ session.started
  /\ session.department = "dermatology"
  /\ Len(session.answers) > 0
  /\ session_language[SessionClient] = "hi"

\* the matcher's result for the answers of the session
SessionMatch ==
  find_condition_by_symptoms(
    departments_data, session.department,
    map_answers_to_symptoms(session.department, session.answers).items)

\* C28: a select_treatment with a treatment type, in a session with a
\* department whose answers match no condition, answers 200 with no
\* condition, the consult-a-professional message (translated or not) and
\* requires_doctor true.
C28_NoMatchIsSafe ==
  [][\A treatment_type \in TreatmentTypeInputs, provider \in SessionProviders :
       (/\ session.started
        /\ treatment_type # ""
        /\ ~Truthy(SessionMatch)
        /\ select_treatment(SessionClient, treatment_type, provider))
         => /\ response'.kind = "no_match"
            /\ response'.status = 200
            /\ response'.condition = None
            /\ response'.requires_doctor = TRUE
            /\ response'.message
                 \in {NoMatchText,
                      provider_translate(NoMatchText, SessionLanguage(SessionClient))}]_vars

\* select_treatment has answered without a condition in a session of
\* language "hi" whose department has a treatment table and no condition
\* list, after the client gave answers
C28_Witness ==
  /\ response.kind = "no_match"
  /\ session.department = "musculoskeletal"
  /\ Len(session.answers) >= 2
  /\ session.treatment_type = Str("allopathy")
  /\ session_language[SessionClient] = "hi"

\* C26 as stated: the value of every cache entry is what a provider call
\* for the text and the language of its key returned.
C26_EntryFromProvider ==
  \A i \in 1..Len(translation_cache) :
    translation_cache[i].value
      = provider_translate(translation_cache[i].key[1], translation_cache[i].key[2])

\* the cache holds the translation of one text and, under the key of
\* another text whose provider call raised, that text itself
C26_Witness ==
  \E i, j \in 1..Len(translation_cache) :
    /\ translation_cache[i].key = CacheKey("Fever", "hi")
    /\ translation_cache[i].value = "Fever"
    /\ translation_cache[j].key = CacheKey("Rest", "hi")
    /\ translation_cache[j].value = provider_translate("Rest", "hi")

\* what holds of every entry, however the completions and the clears
\* interleave: its value is what do_translate returns for the text and the
\* language of its own key, the provider's translation or the text; and no
\* key has two entries
C26_EntryOfOwnKey ==
  /\ \A i \in 1..Len(translation_cache) :
       translation_cache[i].value
         \in {provider_translate(translation_cache[i].key[1], translation_cache[i].key[2]),
              translation_cache[i].key[1]}
  /\ \A i, j \in 1..Len(translation_cache) :
       translation_cache[i].key = translation_cache[j].key => i = j

\* a condition of the department's catalog passes the admission thresholds
\* for the input symptoms
Admissible(d) ==
  \/ MatchCountOf(d) >= 2
  \/ MatchCountOf(d) >= 1 /\ MatchCountOf(d) * 100 >= 30 * TotalOf(d)

\* the condition id has no entry in the department's treatment table
Untreated(id) == id \notin DOMAIN departments_data[department].treatments

\* C31: over a catalog with a condition list and a treatment table the call
\* returns a list; a condition without an entry in the treatment table is in
\* it exactly when it passes the admission thresholds, scored like any
\* other and with an empty treatments dict; every other condition that
\* passes the thresholds is in the list too, with its entry of the table;
\* and the list is ranked over all of them.
C31_MissingTreatmentsKept ==
  (matched # NotCalled /\ FullCatalog) =>
    /\ Ranked
    /\ \A k \in 1..Len(Diseases) :
         LET d == Diseases[k]
         IN  /\ InResult(d.id) <=> Admissible(d)
             /\ \A i \in 1..Len(matched.items) :
                  matched.items[i].disease_id = d.id =>
                    /\ matched.items[i].match_score = MatchCountOf(d)
                    /\ matched.items[i].total_disease_symptoms = TotalOf(d)
                    /\ IF Untreated(d.id)
                         THEN DOMAIN matched.items[i].treatments = {}
                         ELSE matched.items[i].treatments
                                = departments_data[department].treatments[d.id]
    /\ \A i \in 1..(Len(matched.items) - 1) :
         ~KeyLess(matched.items[i], matched.items[i + 1])

\* a returned list in which a condition without treatment entry stands in
\* front of one that has an entry and behind another that has one
C31_Witness ==
  /\ Ranked /\ FullCatalog
  /\ \E i, j, k \in 1..Len(matched.items) :
       /\ i < j /\ j < k
       /\ ~Untreated(matched.items[i].disease_id)
       /\ Untreated(matched.items[j].disease_id)
       /\ DOMAIN matched.items[j].treatments = {}
       /\ ~Untreated(matched.items[k].disease_id)
       /\ DOMAIN matched.items[k].treatments # {}

\* C36: every returned entry has 1 <= matchCount <= totalSymptoms and
\* 0 < matchPercentage <= 100, and no condition without a matched symptom
\* or without a required symptom is in the returned list.
C36_ResultBounds ==
  (Ranked /\ FullCatalog) =>
    /\ \A i \in 1..Len(matched.items) :
         LET r == matched.items[i]
         IN  /\ 1 <= r.match_score
             /\ r.match_score <= r.total_disease_symptoms
             /\ r.match_percentage.den > 0
             /\ 0 < r.match_percentage.num
             /\ r.match_percentage.num <= 100 * r.match_percentage.den
    /\ \A k \in 1..Len(Diseases) :
         (MatchCountOf(Diseases[k]) = 0 \/ TotalOf(Diseases[k]) = 0)
           => ~InResult(Diseases[k].id)

\* a returned list with an entry of 100 percent and one of less, over a
\* catalog that has a condition without a required symptom and one that the
\* input symptoms do not touch
C36_Witness ==
  /\ Ranked /\ FullCatalog
  /\ \E i, j \in 1..Len(matched.items) :
       /\ matched.items[i].match_score = matched.items[i].total_disease_symptoms
       /\ matched.items[j].match_score < matched.items[j].total_disease_symptoms
  /\ \E k, n \in 1..Len(Diseases) :
       /\ TotalOf(Diseases[k]) = 0
       /\ TotalOf(Diseases[n]) > 0 /\ MatchCountOf(Diseases[n]) = 0

\* C32 as stated: select_treatment answers with the outcome of the matcher,
\* a condition or none, only in a session whose answers leave no question
\* to ask.
C32_DiagnosisAfterFlow ==
  response.kind \in {"diagnosis", "no_match"} => ~IsQuestion(Pending)

\* select_treatment has named a condition in a session that has answers
\* and a question still to ask
C32_Witness ==
  /\ response.kind = "diagnosis"
  /\ session.answers # EmptyDict
  /\ IsQuestion(Pending)

\* C34 as stated: answer_question records an answer under a new key only
\* when the key is the id of the question that get_next_question returned
\* for the answers so far, the one the last response presented (a question
\* with an unmet dependency is never that one).
C34_OnlyPresentedAnswered ==
  [][(session.started /\ session'.started) =>
       \A k \in DictKeys(session'.answers) \ DictKeys(session.answers) :
         IsQuestion(Pending) /\ k = Pending.id]_vars

\* the session holds an answer under an id of no flow, next to an answer
\* to a question of the flow
C34_Witness ==
  /\ session.started
  /\ ForeignKey \in DictKeys(session.answers)
  /\ \E i \in 1..Len(conversation_flows[session.department]) :
       conversation_flows[session.department][i].id \in DictKeys(session.answers)
  /\ response.kind = "question"

\* C38 as stated: a request ends in a result or in a rejection with status
\* 400, never in an unhandled error.
C38_NoUnhandledError ==
  response.kind = "error" => response.status = 400

\* select_treatment for home remedies ended in an UnboundLocalError: the
\* top condition's home remedy is "please consult doctor"
C38_Witness ==
  /\ response = ErrorResponse(500, "UnboundLocalError")
  /\ session.treatment_type = Str("home_remedy")
  /\ Truthy(SessionMatch)
  /\ SessionMatch.items[1].treatments["home_remedy"] = Str("please consult doctor")

\* select_treatment for a treatment type that TREATMENT_TYPES does not have
\* ended in a KeyError
C38_UnknownTreatmentType ==
  /\ response = ErrorResponse(500, "KeyError")
  /\ session.treatment_type = Str("unani")
  /\ Truthy(SessionMatch)

\* C33: in an interview that starts without answers and answers each
\* presented question with one of its option values, no more questions are
\* presented than the flow has, every answer is stored under the id of a
\* presented question, and once as many answers are stored as the flow has
\* questions get_next_question returns none: the interview ends within that
\* many answers.
C33_InterviewTerminates ==
  LET flow == conversation_flows[department]
  IN  /\ Len(presented) <= Len(flow)
      /\ Len(answers) <= Len(presented)
      /\ Len(presented) <= Len(answers) + 1
      /\ \A i \in 1..Len(answers) : answers[i].key = presented[i]
      /\ Len(answers) = Len(flow) =>
           get_next_question(department, answers) = None
      /\ question = None => Len(answers) = Len(presented)

\* the gastrointestinal interview has ended after one answer for each of
\* its questions, the dependent one included
C33_Witness ==
  /\ department = "gastrointestinal"
  /\ question = None
  /\ Len(answers) = Len(conversation_flows[department])
  /\ DictHas(answers, "upper_abdomen_timing")

\* the gastrointestinal interview has ended with fewer answers than the
\* flow has questions: the dependent question was never eligible
C33_EndsEarly ==
  /\ department = "gastrointestinal"
  /\ question = None
  /\ Len(answers) < Len(conversation_flows[department])

\* C35 as stated: whatever another request's clear or eviction does in
\* between, a translate_text call that returns gives a string, the cached
\* or fresh translation or the text itself, and clear_old_cache does not
\* raise.
C35_RacesAreSafe ==
  \A c \in Callers :
    calls[c].pc = "returned" =>
      \/ calls[c].result = Str(calls[c].text)
      \/ calls[c].result = Str(provider_translate(calls[c].text, calls[c].lang))

\* translate_text found its key in the cache at line 63 and raised KeyError
\* at line 64: the other request's eviction had removed the entry
C35_Witness ==
  /\ calls[Translator] = Returned(ToString(1), "hi", Raise("KeyError"), 64)
  /\ calls[Evictor].pc \in {"evict_test", "evict_iter", "evict_next", "evict_pop"}
  /\ translation_cache # EmptyDict

\* clear_old_cache raised in its loop after the other request's
\* set_language had cleared the cache
C35_EvictionFails ==
  /\ calls[Evictor].pc = "returned"
  /\ calls[Evictor].line = 129
  /\ calls[Evictor].result.tag = "raise"

\* C37: after any sequence of translate_question and translate_treatments
\* calls in any language nothing has been assigned to an object of the
\* catalog: the question and option texts of the flows and the treatment
\* texts of the conditions read as they were loaded, and a call in a
\* session of language "en" returns the loaded texts.
C37_CatalogUnaltered ==
  /\ catalog_writes = EmptyDict
  /\ \A input \in CatalogQuestions :
       stored_question(input[1], input[2]) = question_dict(input[1], input[2])
  /\ \A input \in CatalogTreatments :
       stored_treatments(input[1], input[2])
         = departments_data[input[1]].treatments[input[2]]
  /\ (question_call.tag = "called" /\ question_call.lang = "en") =>
       question_call.result
         = question_dict(question_call.department, question_call.index)
  /\ (question_call.tag = "treatments" /\ question_call.lang = "en") =>
       question_call.result
         = departments_data[question_call.department].treatments[question_call.disease]

\* translate_question has returned a question of a flow with its text and
\* its option texts in Hindi, and the flow still holds the loaded texts
C37_Witness ==
  /\ question_call.tag = "called"
  /\ question_call.lang = "hi"
  /\ LET q == question_dict(question_call.department, question_call.index)
     IN  /\ question_call.result.question = provider_translate(q.question, "hi")
         /\ \A j \in 1..Len(q.options) :
              question_call.result.options[j].text
                = provider_translate(q.options[j].text, "hi")
         /\ stored_question(question_call.department, question_call.index) = q

\* translate_treatments has returned the treatments of a condition in
\* Hindi, and the condition still holds the loaded texts
C37_TreatmentsTranslated ==
  /\ question_call.tag = "treatments"
  /\ question_call.lang = "hi"
  /\ question_call.result["allopathy"]
       = List(<<provider_translate("antacid", "hi"), provider_translate("rest", "hi")>>)
  /\ stored_treatments("gastrointestinal", "DIS_01")
       = departments_data["gastrointestinal"].treatments["DIS_01"]

====
